---- MODULE Spec2Model ----
(***************************************************************************)
(* Model of the RGBASM lexer core (src/src/asm/lexer.cpp): the peek/shift  *)
(* primitive with its expansion stack, macro-argument and interpolation    *)
(* readers, the identifier reader, the IF-block skippers, yylex_NORMAL on  *)
(* the model's alphabet, and yylex with its pending-state switch.          *)
(*                                                                         *)
(* Characters are one-character strings, strings are sequences of          *)
(* characters.  Every lexer function is an operator from a machine record  *)
(* to a machine record: field ls is the LexerState, fields c, str and num  *)
(* carry the function's return value, diags and fatal are the diagnostics  *)
(* module's record of error() and fatal() calls.                           *)
(***************************************************************************)
EXTENDS Integers, Sequences, FiniteSets, TLC

VARIABLES lexerState, lexerStateEOL, fstk, tok, diags, fatal, parser, hist, options

vars == <<lexerState, lexerStateEOL, fstk, tok, diags, fatal, parser, hist, options>>

(***************************************************************************)
(* Bounds of the model.                                                    *)
(***************************************************************************)
\* Number of pieces a character-level source is made of (SpecPS).
MaxPieces == 3
\* Number of lines a token-level source has after its first line (Spec).
MaxLines == 2
\* Number of lines, after the first, of the text a capture starts in front
\* of (SpecCap).
MaxCapLines == 2
\* Number of pieces of a source with interpolations (SpecI).
MaxIPieces == 3
\* Number of interpolations the reference expansion of a source resolves:
\* more than the three a piece can call for.
RewriteFuel == 3 * MaxIPieces + 1
\* Number of lines of a replayed REPT body and number of its replays (SpecRT).
MaxBodyLines == 2
MaxReplays == 2

\* The number of pieces a line of macro arguments is made of.
MaxRawPieces == 3

\* The number of pieces the digits of a numeric literal are made of (SpecTok).
MaxNumPieces == 3

\* The number of digits a written fixed-point precision has (SpecTok).
MaxPrecDigits == 3

\* The number of pieces the body of a string literal is made of (SpecTok).
MaxStrPieces == 3

\* The number of pieces the inside of a block comment is made of (SpecTok).
MaxComPieces == 3

\* The number of times the digit aliases are set (SpecOpt).
MaxOptCalls == 2

(***************************************************************************)
(* Characters.                                                             *)
(***************************************************************************)
EOF == "EOF"

Digits == {"0", "1", "2", "3", "4", "5", "6", "7", "8", "9"}

DigitVal == [d \in Digits |-> CASE d = "0" -> 0 [] d = "1" -> 1 [] d = "2" -> 2 [] d = "3" -> 3 [] d = "4" -> 4 [] d = "5" -> 5 [] d = "6" -> 6 [] d = "7" -> 7 [] d = "8" -> 8 [] d = "9" -> 9]

UpperLetters == {"A", "B", "C", "D", "E", "F", "I", "K", "L", "M", "N", "O", "P", "R", "S", "T", "X"}

LowerLetters == {"a", "b", "c", "d", "e", "f", "i", "l", "n", "s", "x"}

toupper(c) == CASE c = "a" -> "A" [] c = "b" -> "B" [] c = "c" -> "C" [] c = "d" -> "D" [] c = "e" -> "E" [] c = "f" -> "F" [] c = "i" -> "I" [] c = "l" -> "L" [] c = "n" -> "N" [] c = "s" -> "S" [] c = "x" -> "X" [] OTHER -> c

isWhitespace(c) == c = " " \/ c = "\t"

isMacroChar(c) == c = "@" \/ c = "#" \/ c = "<" \/ (c \in Digits /\ c # "0")

\* util.hpp is not part of the sources at hand: the identifier character
\* classes follow section 4.6 of the specification.
startsIdentifier(c) == c \in UpperLetters \/ c \in LowerLetters \/ c \in {"_", ".", "@", "?", "$"}

continuesIdentifier(c) == startsIdentifier(c) \/ c \in Digits

RECURSIVE UpperString(_)
UpperString(str) == IF str = <<>> THEN <<>> ELSE <<toupper(Head(str))>> \o UpperString(Tail(str))

\* The entries of keywordDict the model's sources can spell.
keywordDict == [k \in {<<"I", "F">>, <<"E", "L", "I", "F">>, <<"E", "L", "S", "E">>, <<"E", "N", "D", "C">>, <<"R", "E", "P", "T">>, <<"F", "O", "R">>, <<"E", "N", "D", "R">>, <<"E", "N", "D", "M">>, <<"B", "R", "E", "A", "K">>} |-> CASE k = <<"I", "F">> -> "POP_IF" [] k = <<"E", "L", "I", "F">> -> "POP_ELIF" [] k = <<"E", "L", "S", "E">> -> "POP_ELSE" [] k = <<"E", "N", "D", "C">> -> "POP_ENDC" [] k = <<"R", "E", "P", "T">> -> "POP_REPT" [] k = <<"F", "O", "R">> -> "POP_FOR" [] k = <<"E", "N", "D", "R">> -> "POP_ENDR" [] k = <<"E", "N", "D", "M">> -> "POP_ENDM" [] k = <<"B", "R", "E", "A", "K">> -> "POP_BREAK"]

(***************************************************************************)
(* Collaborators: options, symbol table, macro arguments.                  *)
(***************************************************************************)
\* options.maxRecursionDepth as set by -r (the model runs with a small one).
maxRecursionDepth == 2

\* The symbol table the lexer queries: s, t, v, w and y are string equates
\* (t names itself, v names s, w holds an interpolation of s and y one of
\* w), n and z numeric constants; every other name is undefined.
Symbols == [name \in {<<"s">>, <<"t">>, <<"v">>, <<"w">>, <<"y">>, <<"n">>, <<"z">>, <<"q">>, <<"k">>} |-> CASE name = <<"k">> -> [type |-> "EQUS", str |-> <<"\\", "1">>, num |-> 0] [] name = <<"q">> -> [type |-> "EQUS", str |-> <<"\"", "\"", "\"", "\n", "\"", "\"", "\"">>, num |-> 0] [] name = <<"y">> -> [type |-> "EQUS", str |-> <<"{", "w", "}">>, num |-> 0] [] name = <<"s">> -> [type |-> "EQUS", str |-> <<"a", "b">>, num |-> 0] [] name = <<"t">> -> [type |-> "EQUS", str |-> <<"{", "t", "}">>, num |-> 0] [] name = <<"v">> -> [type |-> "EQUS", str |-> <<"s">>, num |-> 0] [] name = <<"w">> -> [type |-> "EQUS", str |-> <<"{", "s", "}", "x">>, num |-> 0] [] name = <<"n">> -> [type |-> "NUM", str |-> <<>>, num |-> 2] [] name = <<"z">> -> [type |-> "NUM", str |-> <<>>, num |-> 0]]

sym_FindScopedValidSymbol(name) == IF name \in DOMAIN Symbols THEN [found |-> TRUE, sym |-> Symbols[name]] ELSE [found |-> FALSE, sym |-> [type |-> "NONE", str |-> <<>>, num |-> 0]]

\* A shared_ptr<std::string> result: absent (nullptr) or a string.
NullStr == [present |-> FALSE, val |-> <<>>]

SomeStr(v) == [present |-> TRUE, val |-> v]

\* MacroArgs::getArg (macro.cpp): the k-th argument, or nullptr.
MacroArgs_getArg(args, k) == IF k >= 1 /\ k <= Len(args) THEN SomeStr(args[k]) ELSE NullStr

RECURSIVE JoinArgs(_)
JoinArgs(args) == IF args = <<>> THEN <<>> ELSE IF Len(args) = 1 THEN args[1] ELSE args[1] \o <<",">> \o JoinArgs(Tail(args))

\* MacroArgs::getAllArgs (macro.cpp): the arguments joined by commas.
MacroArgs_getAllArgs(args) == SomeStr(JoinArgs(args))

\* FormatSpec::appendNumber with the default format (format.cpp).
FormatNumber(v) == <<"$">> \o (IF v < 10 THEN <<CHOOSE d \in Digits : DigitVal[d] = v>> ELSE <<"F">>)

(***************************************************************************)
(* LexerState and the machine record the lexer functions work on.          *)
(***************************************************************************)
\* LexerState::clear, applied to a state that views `content` from offset 0.
NewLexerState(content, lineNo_) == [content |-> content, viewed |-> TRUE, offset |-> 0, mode |-> "LEXER_NORMAL", atLineStart |-> TRUE, lastToken |-> "YYEOF", nextToken |-> "none", ifStack |-> <<>>, capturing |-> FALSE, hasCaptureBuf |-> FALSE, captureBuf |-> <<>>, captureSize |-> 0, disableMacroArgs |-> FALSE, disableInterpolation |-> FALSE, macroArgScanDistance |-> 0, expandStrings |-> TRUE, expansions |-> <<>>, lineNo |-> lineNo_]

\* The file stack node of the active context: `iters` is the number of
\* replays a REPT/FOR node has yet to run, the current one included.
NoFstk == [inMacro |-> FALSE, args |-> <<>>, hasUID |-> FALSE, uid |-> <<>>, kind |-> "file", iters |-> 0, lineNo |-> 0, parents |-> <<>>]

NoToken == [type |-> "none", value |-> <<>>]

\* Observation record kept beside the program state: what the last operation
\* was and what it did, for the properties to refer to.
NoPre == [depth |-> 0, mode |-> "LEXER_NORMAL", nextToken |-> "none", atLineStart |-> TRUE, ndiags |-> 0, offset |-> 0, nexp |-> 0, eolPending |-> FALSE, switched |-> FALSE, lastToken |-> "YYEOF", ifStack |-> <<>>, content |-> <<>>, nparents |-> 0]

NoSkip == [fn |-> "none", toEndc |-> FALSE, depth |-> 0, viaMode |-> FALSE, ndiags |-> 0, nexp |-> 0, offset |-> 0, atLineStart |-> FALSE]

EmptyHist == [trace |-> FALSE, shifted |-> <<>>, delivered |-> <<>>, substs |-> <<>>, kwlog |-> <<>>, expGrew |-> FALSE, skipped |-> FALSE, skipInfo |-> NoSkip, scanBelowZero |-> FALSE, lineInExp |-> FALSE, ahead |-> {}, lit |-> "out", litPeeks |-> {}, op |-> "init", pre |-> NoPre]

\* A Capture whose span is null: `ptr` tells a view of the content ("view",
\* from offset `base`) from the retrieved capture buffer ("buf", in `buf`).
NoCapture == [lineNo |-> 0, span |-> [ptr |-> "null", base |-> 0, buf |-> <<>>, size |-> 0]]

\* The options in force when nothing was configured.
DefaultOptions == [binDigits |-> <<"0", "1">>, gfxDigits |-> <<"0", "1", "2", "3">>, fixPrecision |-> 16]

Machine(ls, fs, dg, ft, h) == [options |-> DefaultOptions, ls |-> ls, fstk |-> fs, capture |-> NoCapture, c |-> EOF, str |-> NullStr, num |-> 0, u32 |-> [hi |-> 0, lo |-> 0], token |-> NoToken, done |-> FALSE, diags |-> dg, fatal |-> ft, hist |-> h]

error(m, msg) == [m EXCEPT !.diags = Append(@, msg)]

fatalError(m, msg) == IF m.fatal # "none" THEN m ELSE [m EXCEPT !.fatal = msg]

Dead(m) == m.fatal # "none"

(***************************************************************************)
(* Character source and expansion stack.                                   *)
(***************************************************************************)
RECURSIVE Call(_, _, _), ReadInterpolationLoop(_, _, _), ReadDecimalLoop(_, _), ReadSymNameLoop(_, _)

Expansion_size(exp) == Len(exp.contents)

\* Index of the first expansion frame that still has a character, 0 if none.
FirstLiveExpansion(ls) == LET live == {i \in 1..Len(ls.expansions) : ls.expansions[i].offset < Expansion_size(ls.expansions[i])} IN IF live = {} THEN 0 ELSE CHOOSE i \in live : \A j \in live : i <= j

LexerState_peekChar(ls) == LET i == FirstLiveExpansion(ls) IN IF i # 0 THEN ls.expansions[i].contents[ls.expansions[i].offset + 1] ELSE IF ls.offset < Len(ls.content) THEN ls.content[ls.offset + 1] ELSE EOF

RECURSIVE PeekAheadFrom(_, _, _), AheadSource(_, _, _)
\* A slip: the distance is not reduced by the characters left in a frame.
PeekAheadFromKeepsDistance(ls, i, distance) == IF i > Len(ls.expansions) THEN (IF ls.offset + distance < Len(ls.content) THEN ls.content[ls.offset + distance + 1] ELSE EOF) ELSE LET exp == ls.expansions[i] idx == exp.offset + distance IN IF idx < Expansion_size(exp) THEN exp.contents[idx + 1] ELSE PeekAheadFrom(ls, i + 1, distance)

PeekAheadFrom(ls, i, distance) == IF i > Len(ls.expansions) THEN (IF ls.offset + distance < Len(ls.content) THEN ls.content[ls.offset + distance + 1] ELSE EOF) ELSE LET exp == ls.expansions[i] idx == exp.offset + distance IN IF idx < Expansion_size(exp) THEN exp.contents[idx + 1] ELSE PeekAheadFrom(ls, i + 1, (distance - (Expansion_size(exp) - exp.offset)) % 256)

LexerState_peekCharAhead(ls) == PeekAheadFrom(ls, 1, 1)

\* Where peekCharAhead returns from: the loop over the expansion frames, for
\* the expansion of a symbol ("sym") or of a macro argument ("arg"), or the
\* code after the loop ("file").
AheadSource(ls, i, distance) == IF i > Len(ls.expansions) THEN "file" ELSE LET exp == ls.expansions[i] idx == exp.offset + distance IN IF idx < Expansion_size(exp) THEN (IF exp.name.present THEN "sym" ELSE "arg") ELSE AheadSource(ls, i + 1, (distance - (Expansion_size(exp) - exp.offset)) % 256)

lexer_CheckRecursionDepth(m) == IF Len(m.ls.expansions) > maxRecursionDepth + 1 THEN fatalError(m, "Recursion limit exceeded") ELSE m

\* `name` is the optional name: NullStr for a macro argument.
beginExpansion(m, str, name) == LET m1 == IF name.present THEN lexer_CheckRecursionDepth(m) ELSE m IN IF Dead(m1) \/ str = <<>> THEN m1 ELSE [m1 EXCEPT !.ls.expansions = <<[name |-> name, contents |-> str, offset |-> 0]>> \o @, !.hist.expGrew = TRUE]

\* Expansion::advance and the loop of shiftChar.
RECURSIVE AdvanceLoop(_)
\* A slip: a frame is popped as soon as its last character is shifted.
AdvanceLoopEagerPop(m) == IF m.ls.expansions # <<>> THEN (IF Head(m.ls.expansions).offset + 1 >= Expansion_size(Head(m.ls.expansions)) THEN AdvanceLoop([m EXCEPT !.ls.expansions = Tail(@)]) ELSE [m EXCEPT !.ls.expansions[1].offset = @ + 1]) ELSE [m EXCEPT !.ls.offset = @ + 1]

AdvanceLoop(m) == IF m.ls.expansions # <<>> THEN (IF Head(m.ls.expansions).offset + 1 > Expansion_size(Head(m.ls.expansions)) THEN AdvanceLoop([m EXCEPT !.ls.expansions = Tail(@)]) ELSE [m EXCEPT !.ls.expansions[1].offset = @ + 1]) ELSE [m EXCEPT !.ls.offset = @ + 1]

\* A plausible slip: the last character of the argument is left unpainted.
PaintLengthShort(str) == IF Len(str) > 0 THEN Len(str) - 1 ELSE 0

\* `lexerState->macroArgScanDistance += str->length()` in peek.
PaintLength(str) == Len(str)

\* A plausible slip: the digit is used as a zero-based index.
MacroArgIndexZeroBased(c) == DigitVal[c] - 1

\* `macroArgs->getArg(c - '0')` in readMacroArg.
MacroArgIndex(c) == DigitVal[c]

LogShift(m) == IF m.hist.trace THEN [m EXCEPT !.hist.shifted = Append(@, LexerState_peekChar(m.ls))] ELSE m

\* A slip: the size is counted only when the characters are copied.
CaptureShiftSizeInBuffer(m) == IF m.ls.capturing /\ m.ls.hasCaptureBuf THEN (LET p == Call("peek", m, <<>>) IN [p EXCEPT !.ls.captureBuf = Append(@, p.c), !.ls.captureSize = @ + 1]) ELSE m

\* The recording of the character about to be shifted, when capturing.
CaptureShift(m) == IF m.ls.capturing THEN (LET mp == IF m.ls.hasCaptureBuf THEN (LET p == Call("peek", m, <<>>) IN [p EXCEPT !.ls.captureBuf = Append(@, p.c)]) ELSE m IN [mp EXCEPT !.ls.captureSize = @ + 1]) ELSE m

\* A slip: the counter is decremented twice per shift.
shiftCharDecrementsTwice(m) == IF Dead(m) THEN m ELSE LET m1 == CaptureShift(m) IN IF Dead(m1) THEN m1 ELSE AdvanceLoop([LogShift(m1) EXCEPT !.ls.macroArgScanDistance = @ - 2, !.hist.scanBelowZero = @ \/ m1.ls.macroArgScanDistance <= 1])

\* hist.scanBelowZero records a decrement that found the counter at zero.
shiftChar(m) == IF Dead(m) THEN m ELSE LET m1 == CaptureShift(m) IN IF Dead(m1) THEN m1 ELSE AdvanceLoop([LogShift(m1) EXCEPT !.ls.macroArgScanDistance = @ - 1, !.hist.scanBelowZero = @ \/ m1.ls.macroArgScanDistance <= 0])

bumpChar(m) == LET p == Call("peek", m, <<>>) IN IF p.c # EOF THEN [Call("shiftChar", p, <<>>) EXCEPT !.c = p.c] ELSE p

nextChar(m) == Call("peek", Call("shiftChar", m, <<>>), <<>>)

\* The macro-argument branch of peek, after the backslash has been seen to
\* be followed by a macro character.
PeekMacroArg(m) == LET start == Len(m.hist.shifted) m1 == Call("readMacroArg", Call("shiftChar", m, <<>>), <<>>) IN IF Dead(m1) THEN m1 ELSE IF m1.str.present THEN LET m2 == beginExpansion(m1, m1.str.val, NullStr) IN [m2 EXCEPT !.ls.macroArgScanDistance = @ + PaintLength(m1.str.val), !.hist.substs = IF m.hist.trace THEN Append(@, [start |-> start, at |-> Len(m1.hist.shifted), text |-> m1.str.val]) ELSE @] ELSE m1

\* The interpolation branch of peek.
PeekInterpolation(m) == LET m1 == Call("readInterpolation", Call("shiftChar", m, <<>>), <<0>>) IN IF Dead(m1) THEN m1 ELSE IF m1.str.present THEN beginExpansion(m1, m1.str.val, m1.str) ELSE m1

\* hist.lit tells whether the lexer is inside a string literal ("lit"), inside
\* the body of an interpolation of the literal ("interp") or inside a bracketed
\* macro argument of the literal ("bracket"); hist.litPeeks records where a peek
\* of the literal found macro arguments or interpolation enabled.
LiteralPeek(m) == IF m.hist.lit \in {"lit", "bracket"} /\ ~(m.ls.disableMacroArgs /\ m.ls.disableInterpolation) THEN [m EXCEPT !.hist.litPeeks = @ \cup {m.hist.lit}] ELSE m

\* A slip: characters already scanned are scanned again.
peekRescans(m0) == IF Dead(m0) THEN [m0 EXCEPT !.c = EOF] ELSE LET m == LiteralPeek(m0) c == LexerState_peekChar(m.ls) IN LET m1 == [m EXCEPT !.ls.macroArgScanDistance = @ + 1] IN IF c = "\\" /\ ~m.ls.disableMacroArgs THEN (LET m2 == [m1 EXCEPT !.ls.macroArgScanDistance = @ + 1, !.hist.ahead = @ \cup {AheadSource(m1.ls, 1, 1)}] IN IF ~isMacroChar(LexerState_peekCharAhead(m2.ls)) THEN [m2 EXCEPT !.c = c] ELSE Call("peek", PeekMacroArg(m2), <<>>)) ELSE IF c = "{" /\ ~m.ls.disableInterpolation THEN Call("peek", PeekInterpolation(m1), <<>>) ELSE [m1 EXCEPT !.c = c]

peek(m0) == IF Dead(m0) THEN [m0 EXCEPT !.c = EOF] ELSE LET m == LiteralPeek(m0) c == LexerState_peekChar(m.ls) IN IF m.ls.macroArgScanDistance > 0 THEN [m EXCEPT !.c = c] ELSE LET m1 == [m EXCEPT !.ls.macroArgScanDistance = @ + 1] IN IF c = "\\" /\ ~m.ls.disableMacroArgs THEN (LET m2 == [m1 EXCEPT !.ls.macroArgScanDistance = @ + 1, !.hist.ahead = @ \cup {AheadSource(m1.ls, 1, 1)}] IN IF ~isMacroChar(LexerState_peekCharAhead(m2.ls)) THEN [m2 EXCEPT !.c = c] ELSE Call("peek", PeekMacroArg(m2), <<>>)) ELSE IF c = "{" /\ ~m.ls.disableInterpolation THEN Call("peek", PeekInterpolation(m1), <<>>) ELSE [m1 EXCEPT !.c = c]

handleCRLF(m, c) == IF c = "\r" THEN (LET p == Call("peek", m, <<>>) IN IF p.c = "\n" THEN Call("shiftChar", p, <<>>) ELSE p) ELSE m

\* uint32_t values are kept as two 16-bit halves, the model checker's own
\* integers being narrower than 32 bits unsigned.
U32(n) == [hi |-> n \div 65536, lo |-> n % 65536]

\* value * 10 + c before truncation: the high half may exceed 16 bits.
U32MulAdd(value, base, c) == LET lo1 == value.lo * base + c IN [hi |-> value.hi * base + lo1 \div 65536, lo |-> lo1 % 65536]

\* A slip: the digit to add is left out of the comparison.
U32OverflowsDigitLeftOut(value, base, c) == LET q == [hi |-> 65535 \div base, lo |-> ((65535 % base) * 65536 + 65535) \div base] IN value.hi > q.hi \/ (value.hi = q.hi /\ value.lo > q.lo)

\* `value > (UINT32_MAX - c) / base`, the quotient by long division on the
\* two halves.
U32Overflows(value, base, c) == LET q == [hi |-> 65535 \div base, lo |-> ((65535 % base) * 65536 + 65535 - c) \div base] IN value.hi > q.hi \/ (value.hi = q.hi /\ value.lo > q.lo)

U32Truncate(wide) == [hi |-> wide.hi % 65536, lo |-> wide.lo]

\* `n > INT32_MAX` for a uint32_t n.
AboveInt32Max(n) == n.hi >= 32768

\* static_cast<int32_t>(n) for n <= INT32_MAX.
AsInt32(n) == n.hi * 65536 + n.lo

\* The loop of readDecimalNumber; num is left as a uint32_t.
ReadDecimalLoop(m, value) == LET c == m.c IN IF Dead(m) THEN m ELSE IF c = "_" THEN ReadDecimalLoop(Call("nextChar", m, <<>>), value) ELSE IF c \in Digits THEN LET d == DigitVal[c] mw == IF U32Overflows(value, 10, d) THEN [m EXCEPT !.diags = Append(@, "warning: Integer constant is too large")] ELSE m IN ReadDecimalLoop(Call("nextChar", mw, <<>>), U32Truncate(U32MulAdd(value, 10, d))) ELSE [m EXCEPT !.u32 = value]

readDecimalNumber(m, initial) == ReadDecimalLoop(Call("peek", m, <<>>), U32(DigitVal[initial]))

\* Letters are the letters of the model's alphabet.
isValidDigit(c) == c \in Digits \/ c \in UpperLetters \/ c \in LowerLetters \/ c \in {".", "#", "@"}

\* The first complaint about digits[i], "none" if there is none; i counts
\* from 1 here and from 0 in the source.
DigitError(digits, n, i) == LET c == digits[i] IN IF ~isValidDigit(c) THEN "Invalid digit" ELSE IF c \in Digits /\ DigitVal[c] < n /\ DigitVal[c] # i - 1 THEN "Changed digit" ELSE IF \E j \in (i + 1)..n : c = digits[j] THEN "Repeated digit" ELSE "none"

\* A slip: a character may be given twice.
checkDigitErrorsRepeatsAllowed(m, digits, n, type) == LET bad == {i \in 1..n : DigitError(digits, n, i) \notin {"none", "Repeated digit"}} first == CHOOSE i \in bad : \A j \in bad : i <= j IN IF bad = {} THEN [m EXCEPT !.done = TRUE] ELSE [error(m, DigitError(digits, n, first)) EXCEPT !.done = FALSE]

\* The verdict is left in done; the error is the first position's first.
checkDigitErrors(m, digits, n, type) == LET bad == {i \in 1..n : DigitError(digits, n, i) # "none"} first == CHOOSE i \in bad : \A j \in bad : i <= j IN IF bad = {} THEN [m EXCEPT !.done = TRUE] ELSE [error(m, DigitError(digits, n, first)) EXCEPT !.done = FALSE]

lexer_SetBinDigits(m, digits) == LET r == checkDigitErrors(m, digits, 2, "binary") IN IF r.done THEN [r EXCEPT !.options.binDigits = digits] ELSE r

lexer_SetGfxDigits(m, digits) == LET r == checkDigitErrors(m, digits, 4, "graphics") IN IF r.done THEN [r EXCEPT !.options.gfxDigits = digits] ELSE r

\* The body the loops of the other readers share: warn if the digit does not
\* fit, then `value = value * base + c`.
AddDigit(value, base, d) == U32Truncate(U32MulAdd(value, base, d))

LargeConstant(m, value, base, d) == IF U32Overflows(value, base, d) THEN [m EXCEPT !.diags = Append(@, "warning: Integer constant is too large")] ELSE m

NoDigits(m, value, empty, msg) == [IF empty THEN error(m, msg) ELSE m EXCEPT !.u32 = value]

RECURSIVE ReadBinaryLoop(_, _, _), ReadOctalLoop(_, _, _), ReadHexLoop(_, _, _)

ReadBinaryLoop(m, value, empty) == LET c == m.c bit == IF c = "0" \/ c = m.options.binDigits[1] THEN 0 ELSE IF c = "1" \/ c = m.options.binDigits[2] THEN 1 ELSE 2 IN IF Dead(m) THEN m ELSE IF c = "_" /\ ~empty THEN ReadBinaryLoop(Call("nextChar", m, <<>>), value, empty) ELSE IF bit < 2 THEN ReadBinaryLoop(Call("nextChar", LargeConstant(m, value, 2, bit), <<>>), AddDigit(value, 2, bit), FALSE) ELSE NoDigits(m, value, empty, "Invalid integer constant, no digits after '%'")

readBinaryNumber(m) == ReadBinaryLoop(Call("peek", m, <<>>), U32(0), TRUE)

OctalDigits == {"0", "1", "2", "3", "4", "5", "6", "7"}

ReadOctalLoop(m, value, empty) == LET c == m.c IN IF Dead(m) THEN m ELSE IF c = "_" /\ ~empty THEN ReadOctalLoop(Call("nextChar", m, <<>>), value, empty) ELSE IF c \in OctalDigits THEN ReadOctalLoop(Call("nextChar", LargeConstant(m, value, 8, DigitVal[c]), <<>>), AddDigit(value, 8, DigitVal[c]), FALSE) ELSE NoDigits(m, value, empty, "Invalid integer constant, no digits after '&'")

readOctalNumber(m) == ReadOctalLoop(Call("peek", m, <<>>), U32(0), TRUE)

\* `c - 'a' + 10`, `c - 'A' + 10`, `c - '0'`; 16 for what is no digit.
HexDigitVal(c) == CASE c \in {"a", "A"} -> 10 [] c \in {"b", "B"} -> 11 [] c \in {"c", "C"} -> 12 [] c \in {"d", "D"} -> 13 [] c \in {"e", "E"} -> 14 [] c \in {"f", "F"} -> 15 [] c \in Digits -> DigitVal[c] [] OTHER -> 16

ReadHexLoop(m, value, empty) == LET c == m.c d == HexDigitVal(c) IN IF Dead(m) THEN m ELSE IF c = "_" /\ ~empty THEN ReadHexLoop(Call("nextChar", m, <<>>), value, empty) ELSE IF d < 16 THEN ReadHexLoop(Call("nextChar", LargeConstant(m, value, 16, d), <<>>), AddDigit(value, 16, d), FALSE) ELSE NoDigits(m, value, empty, "Invalid integer constant, no digits after '$'")

readHexNumber(m) == ReadHexLoop(Call("peek", m, <<>>), U32(0), TRUE)

\* The symbol-name loop of readBracketedMacroArgNum; the name is left in str.
ReadSymNameLoop(m, symName) == IF Dead(m) THEN m ELSE IF continuesIdentifier(m.c) THEN ReadSymNameLoop(Call("nextChar", m, <<>>), Append(symName, m.c)) ELSE [m EXCEPT !.str = SomeStr(symName)]

\* A slip: the character after the body is consumed without being compared
\* with the closing bracket.
BracketedCloseAnyChar(m, num, empty, symbolError) == LET b == Call("bumpChar", m, <<>>) IN IF Dead(b) THEN b ELSE IF empty THEN [error(b, "Empty bracketed macro argument") EXCEPT !.num = 0] ELSE IF num = 0 /\ ~symbolError THEN [error(b, "Invalid bracketed macro argument '\\<0>'") EXCEPT !.num = 0] ELSE [b EXCEPT !.num = num]

\* The tail of readBracketedMacroArgNum, from `c = bumpChar()` on.
BracketedClose(m, num, empty, symbolError) == LET b == Call("bumpChar", m, <<>>) IN IF Dead(b) THEN b ELSE IF b.c # ">" THEN [error(b, "Invalid character in bracketed macro argument") EXCEPT !.num = 0] ELSE IF empty THEN [error(b, "Empty bracketed macro argument") EXCEPT !.num = 0] ELSE IF num = 0 /\ ~symbolError THEN [error(b, "Invalid bracketed macro argument '\\<0>'") EXCEPT !.num = 0] ELSE [b EXCEPT !.num = num]

\* The symbol branch of readBracketedMacroArgNum; c is the first character.
BracketedSymbol(m) == LET r == ReadSymNameLoop(m, <<>>) look == sym_FindScopedValidSymbol(r.str.val) IN IF Dead(r) THEN r ELSE IF ~look.found THEN BracketedClose(error(r, "Bracketed symbol does not exist"), 0, FALSE, TRUE) ELSE IF look.sym.type # "NUM" THEN BracketedClose(error(r, "Bracketed symbol is not numeric"), 0, FALSE, TRUE) ELSE BracketedClose(r, look.sym.num, FALSE, FALSE)

BracketedBody(m) == LET p == Call("peek", m, <<>>) negative == p.c = "-" m2 == IF negative THEN Call("nextChar", p, <<>>) ELSE p c == m2.c IN IF Dead(m2) THEN m2 ELSE IF c \in Digits THEN (LET b == Call("bumpChar", m2, <<>>) d == Call("readDecimalNumber", b, <<b.c>>) IN IF Dead(d) THEN d ELSE IF AboveInt32Max(d.u32) THEN [error(d, "Number in bracketed macro argument is too large") EXCEPT !.num = 0] ELSE BracketedClose(d, IF negative THEN 0 - AsInt32(d.u32) ELSE AsInt32(d.u32), FALSE, FALSE)) ELSE IF startsIdentifier(c) \/ c = "#" THEN (IF c = "#" THEN (LET n == Call("nextChar", m2, <<>>) IN IF ~startsIdentifier(n.c) THEN [error(n, "Empty raw symbol in bracketed macro argument") EXCEPT !.num = 0] ELSE BracketedSymbol(n)) ELSE BracketedSymbol(m2)) ELSE BracketedClose(m2, 0, TRUE, FALSE)

readBracketedMacroArgNum(m) == LET r == BracketedBody([m EXCEPT !.ls.disableMacroArgs = FALSE, !.ls.disableInterpolation = FALSE, !.hist.lit = IF @ = "lit" THEN "bracket" ELSE @]) IN [r EXCEPT !.ls.disableMacroArgs = m.ls.disableMacroArgs, !.ls.disableInterpolation = m.ls.disableInterpolation, !.hist.lit = m.hist.lit]

readMacroArg(m) == LET b == Call("bumpChar", m, <<>>) c == b.c IN IF Dead(b) THEN b ELSE IF c = "@" THEN (IF b.fstk.hasUID THEN [b EXCEPT !.str = SomeStr(b.fstk.uid)] ELSE [error(b, "'\\@' cannot be used outside of a macro or REPT/FOR block") EXCEPT !.str = NullStr]) ELSE IF c = "#" THEN (IF ~b.fstk.inMacro THEN [error(b, "'\\#' cannot be used outside of a macro") EXCEPT !.str = NullStr] ELSE [b EXCEPT !.str = MacroArgs_getAllArgs(b.fstk.args)]) ELSE IF c = "<" THEN (LET r == Call("readBracketedMacroArgNum", b, <<>>) IN IF Dead(r) THEN r ELSE IF r.num = 0 THEN [r EXCEPT !.str = NullStr] ELSE IF ~r.fstk.inMacro THEN [error(r, "'\\<num>' cannot be used outside of a macro") EXCEPT !.str = NullStr] ELSE LET a == MacroArgs_getArg(r.fstk.args, r.num) IN IF ~a.present THEN [error(r, "Macro argument '\\<num>' not defined") EXCEPT !.str = NullStr] ELSE [r EXCEPT !.str = a]) ELSE (IF ~b.fstk.inMacro THEN [error(b, "'\\num' cannot be used outside of a macro") EXCEPT !.str = NullStr] ELSE LET a == MacroArgs_getArg(b.fstk.args, MacroArgIndex(c)) IN IF ~a.present THEN [error(b, "Macro argument '\\num' not defined") EXCEPT !.str = NullStr] ELSE [b EXCEPT !.str = a])

\* A slip: only string symbols are interpolated.
InterpolationResultStringsOnly(m, fmtBuf) == LET raw == fmtBuf # <<>> /\ Head(fmtBuf) = "#" name == IF raw THEN Tail(fmtBuf) ELSE fmtBuf look == sym_FindScopedValidSymbol(name) IN IF ~raw /\ UpperString(fmtBuf) \in DOMAIN keywordDict THEN [error(m, "Interpolated symbol is a reserved keyword") EXCEPT !.str = NullStr] ELSE IF ~look.found THEN [error(m, "Interpolated symbol does not exist") EXCEPT !.str = NullStr] ELSE IF look.sym.type = "EQUS" THEN [m EXCEPT !.str = SomeStr(look.sym.str)] ELSE [error(m, "Interpolated symbol is not a numeric or string symbol") EXCEPT !.str = NullStr]

\* The result of readInterpolation once the body has been read into fmtBuf.
InterpolationResult(m, fmtBuf) == LET raw == fmtBuf # <<>> /\ Head(fmtBuf) = "#" name == IF raw THEN Tail(fmtBuf) ELSE fmtBuf look == sym_FindScopedValidSymbol(name) IN IF ~raw /\ UpperString(fmtBuf) \in DOMAIN keywordDict THEN [error(m, "Interpolated symbol is a reserved keyword") EXCEPT !.str = NullStr] ELSE IF ~look.found THEN [error(m, "Interpolated symbol does not exist") EXCEPT !.str = NullStr] ELSE IF look.sym.type = "EQUS" THEN [m EXCEPT !.str = SomeStr(look.sym.str)] ELSE [m EXCEPT !.str = SomeStr(FormatNumber(look.sym.num))]

\* The loop of readInterpolation; `saved` is the value of disableInterpolation
\* that is put back when the loop is left.
ReadInterpolationLoop(m, depth, fmtBuf) == LET p == Call("peek", m, <<>>) c == p.c IN IF Dead(p) THEN p ELSE IF c = "{" THEN (LET r == Call("readInterpolation", Call("shiftChar", p, <<>>), <<depth + 1>>) IN IF Dead(r) THEN r ELSE ReadInterpolationLoop(IF r.str.present THEN beginExpansion(r, r.str.val, r.str) ELSE r, depth, fmtBuf)) ELSE IF c = EOF \/ c = "\r" \/ c = "\n" \/ c = "\"" THEN [error(p, "Missing }") EXCEPT !.str = SomeStr(fmtBuf)] ELSE IF c = "}" THEN [Call("shiftChar", p, <<>>) EXCEPT !.str = SomeStr(fmtBuf)] ELSE ReadInterpolationLoop(Call("shiftChar", p, <<>>), depth, Append(fmtBuf, c))

readInterpolation(m, depth) == IF depth > maxRecursionDepth THEN fatalError(m, "Recursion limit exceeded") ELSE LET r == ReadInterpolationLoop([m EXCEPT !.ls.disableInterpolation = TRUE], depth, <<>>) IN IF Dead(r) THEN r ELSE InterpolationResult([r EXCEPT !.ls.disableInterpolation = m.ls.disableInterpolation], r.str.val)

\* A slip: the skipper forgets to turn on-the-fly expansion off.
scopedDisableExpansionsNot(m) == m

scopedDisableExpansions(m) == [m EXCEPT !.ls.disableMacroArgs = TRUE, !.ls.disableInterpolation = TRUE]

\* The Defer that scopedDisableExpansions returns, run at scope exit.
reenableExpansions(m) == [m EXCEPT !.ls.disableMacroArgs = FALSE, !.ls.disableInterpolation = FALSE]

(***************************************************************************)
(* IF stack, line counter, identifiers.                                    *)
(***************************************************************************)
\* hist.lineInExp records a line counted while an expansion frame is active.
nextLine(m) == [m EXCEPT !.ls.lineNo = @ + 1, !.hist.lineInExp = @ \/ m.ls.expansions # <<>>]

lexer_GetIFDepth(m) == Len(m.ls.ifStack)

lexer_IncIFDepth(m) == [m EXCEPT !.ls.ifStack = <<[ranIfBlock |-> FALSE, reachedElseBlock |-> FALSE]>> \o @]

\* A plausible slip: the emptiness check is left out and the pop of an
\* empty stack passes unnoticed.
lexer_DecIFDepthUnchecked(m) == IF m.ls.ifStack = <<>> THEN m ELSE [m EXCEPT !.ls.ifStack = Tail(@)]

lexer_DecIFDepth(m) == IF m.ls.ifStack = <<>> THEN fatalError(m, "Found ENDC outside of an IF construct") ELSE [m EXCEPT !.ls.ifStack = Tail(@)]

lexer_RanIFBlock(m) == m.ls.ifStack[1].ranIfBlock

\* A slip: the ELSE flag of the frame is never seen as set.
lexer_ReachedELSEBlockNever(m) == FALSE

lexer_ReachedELSEBlock(m) == m.ls.ifStack[1].reachedElseBlock

lexer_RunIFBlock(m) == [m EXCEPT !.ls.ifStack[1].ranIfBlock = TRUE]

lexer_ReachELSEBlock(m) == [m EXCEPT !.ls.ifStack[1].reachedElseBlock = TRUE]

lexer_SetMode(m, mode) == [m EXCEPT !.ls.mode = mode]

Token(type) == [type |-> type, value |-> <<>>]

TokenStr(type, value) == [type |-> type, value |-> value]

RECURSIVE ReadIdentifierLoop(_, _, _)
ReadIdentifierLoop(m, identifier, tokenType) == IF Dead(m) THEN m ELSE IF continuesIdentifier(m.c) THEN ReadIdentifierLoop(Call("nextChar", m, <<>>), Append(identifier, m.c), IF m.c = "." THEN "LOCAL" ELSE tokenType) ELSE [m EXCEPT !.token = TokenStr(tokenType, identifier)]

OnlyDots(identifier) == \A i \in 1..Len(identifier) : identifier[i] = "."

readIdentifier(m, firstChar, raw) == LET r == ReadIdentifierLoop(Call("peek", m, <<>>), <<firstChar>>, IF firstChar = "." THEN "LOCAL" ELSE "SYMBOL") identifier == r.token.value IN IF Dead(r) THEN r ELSE IF ~raw /\ UpperString(identifier) \in DOMAIN keywordDict THEN [r EXCEPT !.token = Token(keywordDict[UpperString(identifier)])] ELSE IF OnlyDots(identifier) THEN [r EXCEPT !.token = TokenStr("SYMBOL", identifier)] ELSE r

(***************************************************************************)
(* Comments and line continuations.                                        *)
(***************************************************************************)
RECURSIVE DiscardCommentLoop(_)
DiscardCommentLoop(m) == LET p == Call("peek", m, <<>>) IN IF Dead(p) \/ p.c = EOF \/ p.c = "\r" \/ p.c = "\n" THEN p ELSE DiscardCommentLoop(Call("shiftChar", p, <<>>))

discardComment(m) == reenableExpansions(DiscardCommentLoop(scopedDisableExpansions(m)))

discardLineContinuation(m) == LET p == Call("peek", m, <<>>) c == p.c IN IF Dead(p) THEN p ELSE IF isWhitespace(c) THEN Call("discardLineContinuation", Call("shiftChar", p, <<>>), <<>>) ELSE IF c = "\r" \/ c = "\n" THEN (LET h == Call("handleCRLF", Call("shiftChar", p, <<>>), <<c>>) IN IF h.ls.expansions = <<>> THEN nextLine(h) ELSE h) ELSE IF c = ";" THEN Call("discardLineContinuation", Call("discardComment", p, <<>>), <<>>) ELSE IF c = EOF THEN error(p, "Invalid line continuation at end of file") ELSE error(p, "Invalid character after line continuation")

(***************************************************************************)
(* The IF-block skippers.                                                  *)
(***************************************************************************)
\* Offset in the viewed content of the character peek would return, or -1
\* when that character comes from an expansion.
SourcePos(ls) == IF FirstLiveExpansion(ls) # 0 THEN 0 - 1 ELSE ls.offset

\* Note what a skipper does with the keyword it has just read at `pos`.
LogKeyword(m, before, fn, type, pos, effect) == [m EXCEPT !.hist.kwlog = Append(@, [fn |-> fn, type |-> type, pos |-> pos, effect |-> effect, stackBefore |-> before.ls.ifStack, stackAfter |-> m.ls.ifStack, fatal |-> m.fatal # "none"])]

\* `while (!atLineStart)`: read characters until the end of the line. The
\* result's c is EOF when the end of the content was reached.
RECURSIVE SkipToEOL(_)
SkipToEOL(m) == LET b == Call("bumpChar", m, <<>>) c == b.c IN IF Dead(b) \/ c = EOF THEN [b EXCEPT !.c = EOF] ELSE IF c = "\\" THEN (LET b2 == Call("bumpChar", b, <<>>) IN IF b2.c = "\r" \/ b2.c = "\n" THEN SkipToEOL(nextLine(Call("handleCRLF", b2, <<b2.c>>))) ELSE SkipToEOL(b2)) ELSE IF c = "\r" \/ c = "\n" THEN [nextLine(Call("handleCRLF", b, <<c>>)) EXCEPT !.c = c] ELSE SkipToEOL(b)

\* `for (;; shiftChar())`: skip leading whitespace; c is the first other character.
RECURSIVE SkipLeadingWhitespace(_)
SkipLeadingWhitespace(m) == LET p == Call("peek", m, <<>>) IN IF Dead(p) \/ ~isWhitespace(p.c) THEN p ELSE SkipLeadingWhitespace(Call("shiftChar", p, <<>>))

\* A slip in the depth test: any depth passes for the starting one.
AtAnyDepth(m, startingDepth) == TRUE

AtStartingDepth(m, startingDepth) == lexer_GetIFDepth(m) = startingDepth

\* The switch of skipIfBlock on the keyword just read. `done` tells the
\* loop that the function returns the token.
SkipIfSwitch(m, toEndc, startingDepth, pos) == LET type == m.token.type Log(r, effect) == LogKeyword(r, m, "skipIfBlock", type, pos, effect) IN CASE type = "POP_IF" -> [Log(lexer_IncIFDepth(m), "push") EXCEPT !.done = FALSE] [] type = "POP_ELIF" -> (IF lexer_ReachedELSEBlock(m) THEN Log(fatalError(m, "Found ELIF after an ELSE block"), "fatal") ELSE IF ~toEndc /\ AtStartingDepth(m, startingDepth) THEN [Log(m, "return") EXCEPT !.done = TRUE] ELSE [Log(m, "none") EXCEPT !.done = FALSE]) [] type = "POP_ELSE" -> (IF lexer_ReachedELSEBlock(m) THEN Log(fatalError(m, "Found ELSE after an ELSE block"), "fatal") ELSE LET e == lexer_ReachELSEBlock(m) IN IF ~toEndc /\ AtStartingDepth(e, startingDepth) THEN [Log(e, "return") EXCEPT !.done = TRUE] ELSE [Log(e, "none") EXCEPT !.done = FALSE]) [] type = "POP_ENDC" -> (IF AtStartingDepth(m, startingDepth) THEN [Log(m, "return") EXCEPT !.done = TRUE] ELSE [Log(lexer_DecIFDepth(m), "pop") EXCEPT !.done = FALSE]) [] OTHER -> [m EXCEPT !.done = FALSE]

\* The outer loop of skipIfBlock; atLineStart is the function's local.
RECURSIVE SkipIfLoop(_, _, _, _)
SkipIfLoop(m, toEndc, startingDepth, atLineStart) == IF Dead(m) THEN m ELSE IF ~atLineStart THEN (LET e == SkipToEOL(m) IN IF Dead(e) THEN e ELSE IF e.c = EOF THEN [e EXCEPT !.token = Token("YYEOF")] ELSE SkipIfLoop(e, toEndc, startingDepth, TRUE)) ELSE LET w == SkipLeadingWhitespace(m) IN IF Dead(w) THEN w ELSE IF ~startsIdentifier(w.c) THEN SkipIfLoop(w, toEndc, startingDepth, FALSE) ELSE LET pos == SourcePos(w.ls) s == SkipIfSwitch(Call("readIdentifier", Call("shiftChar", w, <<>>), <<w.c, FALSE>>), toEndc, startingDepth, pos) IN IF Dead(s) \/ s.done THEN s ELSE SkipIfLoop(s, toEndc, startingDepth, FALSE)

\* Where skipIfBlock takes its local atLineStart from.
SkipStartsAtLineStart(ls) == ls.atLineStart

\* Note that a skipper starts, and in what state.
LogSkip(m, fn, toEndc) == [m EXCEPT !.hist.expGrew = FALSE, !.hist.skipped = TRUE, !.hist.skipInfo = [fn |-> fn, toEndc |-> toEndc, depth |-> Len(m.ls.ifStack), viaMode |-> m.ls.mode # "LEXER_NORMAL", ndiags |-> Len(m.diags), nexp |-> Len(m.ls.expansions), offset |-> m.ls.offset, atLineStart |-> m.ls.atLineStart]]

skipIfBlock(m, toEndc) == LET m0 == lexer_SetMode(LogSkip(m, "skipIfBlock", toEndc), "LEXER_NORMAL") r == SkipIfLoop(scopedDisableExpansions(m0), toEndc, lexer_GetIFDepth(m0), SkipStartsAtLineStart(m0.ls)) IN IF Dead(r) THEN r ELSE [reenableExpansions(r) EXCEPT !.ls.atLineStart = FALSE]

yylex_SKIP_TO_ELIF(m) == Call("skipIfBlock", m, <<FALSE>>)

yylex_SKIP_TO_ENDC(m) == Call("skipIfBlock", m, <<TRUE>>)

SkipEndrSwitch(m, pos) == LET type == m.token.type IN CASE type = "POP_IF" -> LogKeyword(lexer_IncIFDepth(m), m, "yylex_SKIP_TO_ENDR", type, pos, "push") [] type = "POP_ENDC" -> LET d == lexer_DecIFDepth(m) IN LogKeyword(d, m, "yylex_SKIP_TO_ENDR", type, pos, IF Dead(d) THEN "fatal" ELSE "pop") [] OTHER -> IF type \in {"POP_ELIF", "POP_ELSE"} THEN LogKeyword(m, m, "yylex_SKIP_TO_ENDR", type, pos, "none") ELSE m

RECURSIVE SkipEndrLoop(_, _)
SkipEndrLoop(m, atLineStart) == IF Dead(m) THEN m ELSE IF ~atLineStart THEN (LET e == SkipToEOL(m) IN IF Dead(e) THEN e ELSE IF e.c = EOF THEN [e EXCEPT !.token = Token("YYEOF")] ELSE SkipEndrLoop(e, TRUE)) ELSE LET w == SkipLeadingWhitespace(m) IN IF Dead(w) THEN w ELSE IF ~startsIdentifier(w.c) THEN SkipEndrLoop(w, FALSE) ELSE SkipEndrLoop(SkipEndrSwitch(Call("readIdentifier", Call("shiftChar", w, <<>>), <<w.c, FALSE>>), SourcePos(w.ls)), FALSE)

\* A slip: the skip always starts as if in the middle of a line.
yylex_SKIP_TO_ENDRFromMidLine(m) == LET m0 == lexer_SetMode(LogSkip(m, "yylex_SKIP_TO_ENDR", FALSE), "LEXER_NORMAL") r == SkipEndrLoop(scopedDisableExpansions(m0), FALSE) IN IF Dead(r) THEN r ELSE [reenableExpansions(r) EXCEPT !.ls.atLineStart = FALSE]

yylex_SKIP_TO_ENDR(m) == LET m0 == lexer_SetMode(LogSkip(m, "yylex_SKIP_TO_ENDR", FALSE), "LEXER_NORMAL") r == SkipEndrLoop(scopedDisableExpansions(m0), m0.ls.atLineStart) IN IF Dead(r) THEN r ELSE [reenableExpansions(r) EXCEPT !.ls.atLineStart = FALSE]

(***************************************************************************)
(* Normal mode.                                                            *)
(***************************************************************************)
\* Characters with a case of their own in the switch of yylex_NORMAL (the
\* backquote of graphics constants is outside the alphabet).
NormalSwitchChars == {";", " ", "\t", "~", "[", "]", "(", ")", ",", "+", "-", "*", "/", "|", "^", "=", "!", "<", ">", ":", "&", "%", "\"", "\r", "\n", "\\"}

isGarbageCharacter(c) == c # EOF /\ ~continuesIdentifier(c) /\ c \notin NormalSwitchChars

RECURSIVE GarbageLoop(_)
GarbageLoop(m) == LET p == Call("peek", m, <<>>) IN IF Dead(p) \/ ~isGarbageCharacter(p.c) THEN p ELSE GarbageLoop(Call("bumpChar", p, <<>>))

reportGarbageCharacters(m, c) == LET p == Call("peek", m, <<>>) IN IF Dead(p) THEN p ELSE IF isGarbageCharacter(p.c) THEN error(GarbageLoop(p), "Unknown characters") ELSE error(p, "Unknown character")

sym_FindExactSymbol(name) == sym_FindScopedValidSymbol(name)

\* The branch of each token kind the switch recognises; the operators and
\* literals this development does not follow are reported as "UNMODELLED".
Unmodelled(m) == [m EXCEPT !.token = Token("UNMODELLED")]

RECURSIVE NormalLoop(_)
\* The ELIF check of yylex_NORMAL, then string expansion and labels.
NormalIdentifier(m, c) == LET t == Call("readIdentifier", m, <<c, FALSE>>) type == t.token.type IN IF Dead(t) THEN t ELSE IF type = "POP_ELIF" /\ t.ls.lastToken = "NEWLINE" /\ lexer_GetIFDepth(t) > 0 /\ lexer_RanIFBlock(t) /\ ~lexer_ReachedELSEBlock(t) THEN Call("yylex_SKIP_TO_ENDC", t, <<>>) ELSE IF type # "SYMBOL" /\ type # "LOCAL" THEN t ELSE IF type = "SYMBOL" /\ t.ls.expandStrings /\ sym_FindExactSymbol(t.token.value).found /\ sym_FindExactSymbol(t.token.value).sym.type = "EQUS" THEN Call("yylex_NORMAL", beginExpansion(t, sym_FindExactSymbol(t.token.value).sym.str, SomeStr(t.token.value)), <<>>) ELSE IF type = "SYMBOL" THEN (LET p == Call("peek", t, <<>>) IN IF ~Dead(p) /\ p.c = ":" THEN [p EXCEPT !.token.type = "LABEL"] ELSE p) ELSE t

RECURSIVE BlockCommentLoop(_)

\* A slip: the comment that is open at the end of the input stops the run.
BlockCommentAtEOFFatal(m) == fatalError(m, "Unterminated block comment")

\* `case EOF` of discardBlockComment.
BlockCommentAtEOF(m) == error(m, "Unterminated block comment")

\* The loop of discardBlockComment.
BlockCommentLoop(m) == LET b == Call("bumpChar", m, <<>>) c == b.c p == Call("peek", b, <<>>) IN IF Dead(b) THEN b ELSE CASE c = EOF -> BlockCommentAtEOF(b) [] c = "\r" \/ c = "\n" -> (LET h == IF c = "\r" THEN Call("handleCRLF", b, <<c>>) ELSE b IN BlockCommentLoop(IF h.ls.expansions = <<>> THEN nextLine(h) ELSE h)) [] c = "/" -> BlockCommentLoop(IF ~Dead(p) /\ p.c = "*" THEN [p EXCEPT !.diags = Append(@, "warning: /* in block comment")] ELSE p) [] c = "*" -> (IF Dead(p) THEN p ELSE IF p.c = "/" THEN Call("shiftChar", p, <<>>) ELSE BlockCommentLoop(p)) [] OTHER -> BlockCommentLoop(b)

discardBlockComment(m) == LET r == BlockCommentLoop(scopedDisableExpansions(m)) IN IF Dead(r) THEN r ELSE reenableExpansions(r)

(***************************************************************************)
(* String literals. The string under construction is passed along and      *)
(* returned in str.                                                        *)
(***************************************************************************)
RECURSIVE EscapeExpanded(_), ReadStringLoop(_, _, _, _)

\* The loop of appendExpandedString: escape what raw mode would unescape.
EscapeExpanded(expanded) == IF expanded = <<>> THEN <<>> ELSE LET c == Head(expanded) IN (CASE c = "\n" -> <<"\\", "n">> [] c = "\r" -> <<"\\", "r">> [] c = "\t" -> <<"\\", "t">> [] c = "NUL" -> <<"\\", "0">> [] c \in {"\\", "\"", "'", "{"} -> <<"\\", c>> [] OTHER -> <<c>>) \o EscapeExpanded(Tail(expanded))

appendExpandedString(m, str, expanded) == IF m.ls.mode # "LEXER_RAW" THEN str \o expanded ELSE str \o EscapeExpanded(expanded)

\* The switch of appendCharInLiteral on the character after a backslash.
LiteralEscape(m, str) == LET p == Call("peek", m, <<>>) c == p.c rawMode == p.ls.mode = "LEXER_RAW" sh == Call("shiftChar", p, <<>>) IN IF Dead(p) THEN p ELSE CASE c \in {"\\", "\"", "'", "{", "}"} -> [sh EXCEPT !.str = SomeStr(IF rawMode THEN str \o <<"\\", c>> ELSE Append(str, c))] [] c \in {"n", "r", "t", "0"} -> [sh EXCEPT !.str = SomeStr(IF rawMode THEN str \o <<"\\", c>> ELSE Append(str, CASE c = "n" -> "\n" [] c = "r" -> "\r" [] c = "t" -> "\t" [] c = "0" -> "NUL"))] [] c \in {" ", "\t", "\r", "\n"} -> [Call("discardLineContinuation", p, <<>>) EXCEPT !.str = SomeStr(str)] [] c \in {"@", "#", "1", "2", "3", "4", "5", "6", "7", "8", "9", "<"} -> (LET a == Call("readMacroArg", p, <<>>) IN IF Dead(a) THEN a ELSE [a EXCEPT !.str = SomeStr(IF a.str.present THEN appendExpandedString(a, str, a.str.val) ELSE str)]) [] c = EOF -> [error(p, "Illegal character escape at end of input") EXCEPT !.str = SomeStr(Append(str, "\\"))] [] OTHER -> [error(sh, "Illegal character escape") EXCEPT !.str = SomeStr(Append(str, c))]

appendCharInLiteral(m, str, c) == IF c = "{" THEN (LET r == Call("readInterpolation", [m EXCEPT !.ls.disableMacroArgs = FALSE, !.hist.lit = "interp"], <<0>>) IN IF Dead(r) THEN r ELSE [r EXCEPT !.ls.disableMacroArgs = TRUE, !.hist.lit = m.hist.lit, !.str = SomeStr(IF r.str.present THEN appendExpandedString(r, str, r.str.val) ELSE str)]) ELSE IF c # "\\" THEN [m EXCEPT !.str = SomeStr(Append(str, c))] ELSE LiteralEscape(m, str)

\* A slip: the characters of a raw string are handled like any string's.
StringCharCooked(m, str, c, rawString) == appendCharInLiteral(m, str, c)

\* A character of the string other than the quote: copied if the string is
\* raw, handled by appendCharInLiteral otherwise.
StringChar(m, str, c, rawString) == IF rawString THEN [m EXCEPT !.str = SomeStr(Append(str, c))] ELSE appendCharInLiteral(m, str, c)

\* The quote that may end a multi-line string.
StringQuote(m, str, rawString, multiline) == LET rawMode == m.ls.mode = "LEXER_RAW" p == Call("peek", m, <<>>) n == Call("nextChar", p, <<>>) IN IF ~multiline THEN [m EXCEPT !.str = SomeStr(IF rawMode THEN Append(str, "\"") ELSE str)] ELSE IF Dead(p) THEN p ELSE IF p.c # "\"" THEN ReadStringLoop(p, Append(str, "\""), rawString, multiline) ELSE IF Dead(n) THEN n ELSE IF n.c # "\"" THEN ReadStringLoop(n, str \o <<"\"", "\"">>, rawString, multiline) ELSE [Call("shiftChar", n, <<>>) EXCEPT !.str = SomeStr(IF rawMode THEN str \o <<"\"", "\"", "\"">> ELSE str)]

\* The loop of readString.
ReadStringLoop(m, str, rawString, multiline) == LET p == Call("peek", m, <<>>) c == p.c sh == Call("shiftChar", p, <<>>) IN IF Dead(p) THEN p ELSE IF c = EOF \/ (~multiline /\ (c = "\r" \/ c = "\n")) THEN [error(p, "Unterminated string") EXCEPT !.str = SomeStr(str)] ELSE IF c = "\r" \/ c = "\n" THEN ReadStringLoop(nextLine(Call("handleCRLF", sh, <<c>>)), Append(str, "\n"), rawString, multiline) ELSE IF c # "\"" THEN (LET a == StringChar(sh, str, c, rawString) IN IF Dead(a) THEN a ELSE ReadStringLoop(a, a.str.val, rawString, multiline)) ELSE StringQuote(sh, str, rawString, multiline)

\* Before the loop of readString: an empty string or the start of a
\* multi-line string.
ReadStringOpen(m, str, rawString) == LET rawMode == m.ls.mode = "LEXER_RAW" q == IF rawMode THEN <<"\"">> ELSE <<>> p == Call("peek", m, <<>>) n == Call("nextChar", p, <<>>) IN IF Dead(p) THEN p ELSE IF p.c # "\"" THEN ReadStringLoop(p, str \o q, rawString, FALSE) ELSE IF Dead(n) THEN n ELSE IF n.c # "\"" THEN [n EXCEPT !.str = SomeStr(str \o q \o q)] ELSE ReadStringLoop(Call("shiftChar", n, <<>>), str \o q \o q \o q, rawString, TRUE)

readString(m, str, rawString) == LET r == ReadStringOpen([scopedDisableExpansions(m) EXCEPT !.hist.lit = "lit"], str, rawString) IN IF Dead(r) THEN r ELSE [reenableExpansions(r) EXCEPT !.hist.lit = m.hist.lit]

StringToken(r) == IF Dead(r) THEN r ELSE [r EXCEPT !.token = TokenStr("STRING", r.str.val)]

\* `#`: a raw string if a quote follows; raw identifiers are not modelled.
NormalHash(m) == LET p == Call("peek", m, <<>>) IN IF Dead(p) THEN p ELSE IF p.c = "\"" THEN StringToken(Call("readString", Call("shiftChar", p, <<>>), <<<<>>, TRUE>>)) ELSE Unmodelled(p)

RECURSIVE SkipDigits(_), ReadFractionalLoop(_, _, _, _, _)

\* skipChars over digits and underscores.
SkipDigits(m) == LET p == Call("peek", m, <<>>) IN IF Dead(p) THEN p ELSE IF p.c \in Digits \/ p.c = "_" THEN SkipDigits(Call("shiftChar", p, <<>>)) ELSE p

\* `integer >= (1ULL << (32 - precision))` on the two halves of integer.
FixedTooLarge(integer, precision) == IF precision <= 16 THEN integer.hi >= 2 ^ (16 - precision) ELSE integer.hi > 0 \/ integer.lo >= 2 ^ (32 - precision)

\* After the loop of readFractionalPart. The result is kept as the operands
\* of `(integer << precision) | round(value / divisor * 2^precision)`, which
\* is floating-point arithmetic left unevaluated.
FractionalResult(m, integer, state, value, divisor, precision) == LET m1 == IF precision = 0 /\ state # "DIGITS" THEN error(m, "Invalid fixed-point constant, no significant digits after 'q'") ELSE IF precision > 31 THEN error(m, "Fixed-point constant precision must be between 1 and 31") ELSE m used == IF precision = 0 \/ precision > 31 THEN m.options.fixPrecision ELSE precision m2 == IF FixedTooLarge(integer, used) THEN [m1 EXCEPT !.diags = Append(@, "warning: Magnitude of fixed-point constant is too large")] ELSE m1 IN [m2 EXCEPT !.u32 = [integer |-> integer, value |-> value, divisor |-> divisor, precision |-> used]]

\* The loop of readFractionalPart; m.c is the character under test, and
\* precision is a uint8_t.
ReadFractionalLoop(m, state, value, divisor, precision) == LET c == m.c IN IF Dead(m) THEN [m EXCEPT !.num = precision, !.str = state, !.u32 = [value |-> value, divisor |-> divisor]] ELSE IF state = "DIGITS" THEN (IF c = "_" THEN ReadFractionalLoop(Call("nextChar", m, <<>>), state, value, divisor, precision) ELSE IF c = "q" \/ c = "Q" THEN ReadFractionalLoop(Call("nextChar", m, <<>>), "PRECISION", value, divisor, precision) ELSE IF c \notin Digits THEN [m EXCEPT !.num = precision, !.str = state, !.u32 = [value |-> value, divisor |-> divisor]] ELSE IF divisor > (IF DigitVal[c] <= 5 THEN 429496729 ELSE 429496728) THEN [SkipDigits([m EXCEPT !.diags = Append(@, "warning: Precision of fixed-point constant is too large")]) EXCEPT !.num = precision, !.str = state, !.u32 = [value |-> value, divisor |-> divisor]] ELSE ReadFractionalLoop(Call("nextChar", m, <<>>), state, value * 10 + DigitVal[c], divisor * 10, precision)) ELSE IF c = "." /\ state = "PRECISION" THEN ReadFractionalLoop(Call("nextChar", m, <<>>), "PRECISION_DIGITS", value, divisor, precision) ELSE IF c \notin Digits THEN [m EXCEPT !.num = precision, !.str = state, !.u32 = [value |-> value, divisor |-> divisor]] ELSE ReadFractionalLoop(Call("nextChar", m, <<>>), state, value, divisor, (precision * 10 + DigitVal[c]) % 256)

readFractionalPart(m, integer) == LET l == ReadFractionalLoop(Call("peek", m, <<>>), "DIGITS", 0, 1, 0) IN IF Dead(l) THEN l ELSE FractionalResult(l, integer, l.str, l.u32.value, l.u32.divisor, l.num)

NumberToken(n) == IF Dead(n) THEN n ELSE [n EXCEPT !.token = [type |-> "NUMBER", value |-> n.u32]]

\* `&`: either &=, logical AND, an octal constant, or binary AND.
NormalAmpersand(m) == LET p == Call("peek", m, <<>>) c == p.c IN IF Dead(p) THEN p ELSE IF c = "=" THEN [Call("shiftChar", p, <<>>) EXCEPT !.token = Token("POP_ANDEQ")] ELSE IF c = "&" THEN [Call("shiftChar", p, <<>>) EXCEPT !.token = Token("OP_LOGICAND")] ELSE IF c \in OctalDigits THEN NumberToken(Call("readOctalNumber", p, <<>>)) ELSE [p EXCEPT !.token = Token("OP_AND")]

\* `%`: either %=, a binary constant, or MOD.
NormalPercent(m) == LET p == Call("peek", m, <<>>) c == p.c IN IF Dead(p) THEN p ELSE IF c = "=" THEN [Call("shiftChar", p, <<>>) EXCEPT !.token = Token("POP_MODEQ")] ELSE IF c = "0" \/ c = "1" \/ c = p.options.binDigits[1] \/ c = p.options.binDigits[2] THEN NumberToken(Call("readBinaryNumber", p, <<>>)) ELSE [p EXCEPT !.token = Token("OP_MOD")]

NormalNumber(m, c) == LET p0 == Call("peek", m, <<>>) IN IF c = "0" /\ p0.c \in {"x", "X", "o", "O", "b", "B"} THEN NumberToken(Call(IF p0.c \in {"x", "X"} THEN "readHexNumber" ELSE IF p0.c \in {"o", "O"} THEN "readOctalNumber" ELSE "readBinaryNumber", Call("shiftChar", p0, <<>>), <<>>)) ELSE LET n == Call("readDecimalNumber", m, <<c>>) p == Call("peek", n, <<>>) IN IF Dead(p) THEN p ELSE IF p.c = "." THEN NumberToken(Call("readFractionalPart", Call("shiftChar", p, <<>>), <<n.u32>>)) ELSE [p EXCEPT !.token = [type |-> "NUMBER", value |-> n.u32]]

\* `]]` queues RBRACKS and answers with a synthetic end of line.
NormalRBrack(m) == LET p == Call("peek", m, <<>>) IN IF Dead(p) THEN p ELSE IF p.c = "]" THEN [Call("shiftChar", p, <<>>) EXCEPT !.ls.nextToken = "RBRACKS", !.token = Token("EOL")] ELSE [p EXCEPT !.token = Token("RBRACK")]

NormalLBrack(m) == LET p == Call("peek", m, <<>>) IN IF Dead(p) THEN p ELSE IF p.c = "[" THEN [Call("shiftChar", p, <<>>) EXCEPT !.token = Token("LBRACKS")] ELSE [p EXCEPT !.token = Token("LBRACK")]

\* `continue`: the loop's increment clears atLineStart.
NormalContinue(m) == NormalLoop([m EXCEPT !.ls.atLineStart = FALSE])

\* `/`: either /=, a block comment, or DIV.
NormalSlash(m) == LET p == Call("peek", m, <<>>) IN IF Dead(p) THEN p ELSE IF p.c = "=" THEN [Call("shiftChar", p, <<>>) EXCEPT !.token = Token("POP_DIVEQ")] ELSE IF p.c = "*" THEN NormalContinue(Call("discardBlockComment", Call("shiftChar", p, <<>>), <<>>)) ELSE [p EXCEPT !.token = Token("OP_DIV")]

NormalLoop(m) == IF Dead(m) THEN m ELSE LET b == Call("bumpChar", m, <<>>) c == b.c IN IF Dead(b) THEN b ELSE CASE c = ";" -> NormalContinue(Call("discardComment", b, <<>>)) [] c = " " \/ c = "\t" -> NormalContinue(b) [] c = "," -> [b EXCEPT !.token = Token("COMMA")] [] c = "[" -> NormalLBrack(b) [] c = "]" -> NormalRBrack(b) [] c \in Digits -> NormalNumber(b, c) [] c = "&" -> NormalAmpersand(b) [] c = "%" -> NormalPercent(b) [] c = "$" -> NumberToken(Call("readHexNumber", b, <<>>)) [] c = "\"" -> StringToken(Call("readString", b, <<<<>>, FALSE>>)) [] c = "#" -> NormalHash(b) [] c = "/" -> NormalSlash(b) [] c = "\r" -> [Call("handleCRLF", b, <<c>>) EXCEPT !.token = Token("NEWLINE")] [] c = "\n" -> [b EXCEPT !.token = Token("NEWLINE")] [] c = EOF -> [b EXCEPT !.token = Token("YYEOF")] [] c = "\\" -> NormalContinue(Call("discardLineContinuation", b, <<>>)) [] c \in NormalSwitchChars \cup {"@", "#", "'"} -> Unmodelled(b) [] OTHER -> IF startsIdentifier(c) THEN NormalIdentifier(b, c) ELSE NormalContinue(Call("reportGarbageCharacters", b, <<c>>))

\* A slip in the pending-token slot: the queued token is handed out but
\* stays queued.
TakeNextTokenSticky(m) == [m EXCEPT !.token = Token(m.ls.nextToken)]

TakeNextToken(m) == [m EXCEPT !.ls.nextToken = "none", !.token = Token(m.ls.nextToken)]

yylex_NORMAL(m) == IF m.ls.nextToken # "none" THEN TakeNextToken(m) ELSE NormalLoop(m)

(***************************************************************************)
(* Raw mode: the arguments of a macro invocation.                          *)
(***************************************************************************)
RECURSIVE RawTrimLeft(_), RawLoop(_, _, _), RawBackslash(_, _, _, _), TrimRight(_)

\* A slip: the argument keeps its trailing whitespace.
TrimRightNot(str) == str

\* `str.resize(...)` at `finish`: the string without its trailing whitespace.
TrimRight(str) == IF str # <<>> /\ isWhitespace(str[Len(str)]) THEN TrimRight(SubSeq(str, 1, Len(str) - 1)) ELSE str

\* A slip: the end of the line leaves the lexer in raw mode.
RawLeaveModeNot(m) == m

\* `lexer_SetMode(LEXER_NORMAL)` once the line's last argument is out.
RawLeaveMode(m) == lexer_SetMode(m, "LEXER_NORMAL")

\* From the label `finish` on; c is the character the loop stopped at.
RawFinish(m, c, str0) == LET str == TrimRight(str0) IN IF Dead(m) THEN m ELSE IF c = "," THEN [Call("shiftChar", m, <<>>) EXCEPT !.token = TokenStr("STRING", str)] ELSE IF str # <<>> THEN [m EXCEPT !.token = TokenStr("STRING", str)] ELSE IF c = "\r" \/ c = "\n" THEN [Call("handleCRLF", Call("shiftChar", RawLeaveMode(m), <<>>), <<c>>) EXCEPT !.token = Token("NEWLINE")] ELSE [RawLeaveMode(m) EXCEPT !.token = Token("YYEOF")]

\* The label `append`: the character goes to the string and is shifted.
RawAppend(m, c, str, parenDepth) == RawLoop(Call("shiftChar", m, <<>>), Append(str, c), parenDepth)

\* The label `backslash`: c is the character after the backslash.
RawBackslash(m, c, str, parenDepth) == IF Dead(m) THEN m ELSE IF c \in {",", "(", ")", "\\", "\"", "'", "{", "}"} THEN RawAppend(m, c, str, parenDepth) ELSE IF c = "n" THEN RawAppend(m, "\n", str, parenDepth) ELSE IF c = "r" THEN RawAppend(m, "\r", str, parenDepth) ELSE IF c = "t" THEN RawAppend(m, "\t", str, parenDepth) ELSE IF c = "0" THEN RawAppend(m, "NUL", str, parenDepth) ELSE IF isWhitespace(c) \/ c = "\r" \/ c = "\n" THEN RawLoop(Call("discardLineContinuation", m, <<>>), str, parenDepth) ELSE IF c = EOF THEN RawAppend(error(m, "Illegal character escape at end of input"), "\\", str, parenDepth) ELSE RawAppend(error(m, "Illegal character escape"), c, str, parenDepth)

\* The second loop of yylex_RAW. String and character literals and block
\* comments inside arguments are reported as "UNMODELLED".
RawLoop(m, str, parenDepth) == LET p == Call("peek", m, <<>>) c == p.c IN IF Dead(p) THEN p ELSE CASE c = "'" -> Unmodelled(p) [] c = "\"" -> (LET r == Call("readString", Call("shiftChar", p, <<>>), <<str, FALSE>>) IN IF Dead(r) THEN r ELSE RawLoop(r, r.str.val, parenDepth)) [] c = "#" -> (LET n == Call("nextChar", p, <<>>) r == Call("readString", Call("shiftChar", n, <<>>), <<Append(str, c), TRUE>>) IN IF n.c = "\"" THEN (IF Dead(r) THEN r ELSE RawLoop(r, r.str.val, parenDepth)) ELSE RawLoop(n, Append(str, c), parenDepth)) [] c = ";" -> (LET d == Call("peek", Call("discardComment", p, <<>>), <<>>) IN RawFinish(d, d.c, str)) [] c = "\r" \/ c = "\n" \/ c = EOF -> RawFinish(p, c, str) [] c = "/" -> (LET n == Call("nextChar", p, <<>>) IN IF n.c = "*" THEN RawLoop(Call("discardBlockComment", Call("shiftChar", n, <<>>), <<>>), str, parenDepth) ELSE RawLoop(n, Append(str, c), parenDepth)) [] c = "," -> (IF parenDepth = 0 THEN RawFinish(p, c, str) ELSE RawAppend(p, c, str, parenDepth)) [] c = "(" -> RawAppend(p, c, str, parenDepth + 1) [] c = ")" -> RawAppend(p, c, str, IF parenDepth > 0 THEN parenDepth - 1 ELSE parenDepth) [] c = "\\" -> (LET n == Call("nextChar", p, <<>>) IN RawBackslash(n, n.c, str, parenDepth)) [] OTHER -> RawAppend(p, c, str, parenDepth)

\* The first loop of yylex_RAW: trim left whitespace.
RawTrimLeft(m) == LET p == Call("peek", m, <<>>) c == p.c IN IF Dead(p) THEN p ELSE IF isWhitespace(c) THEN RawTrimLeft(Call("shiftChar", p, <<>>)) ELSE IF c = "\\" THEN (LET n == Call("nextChar", p, <<>>) IN IF ~isWhitespace(n.c) /\ n.c # "\n" /\ n.c # "\r" THEN RawBackslash(n, n.c, <<>>, 0) ELSE RawTrimLeft(Call("discardLineContinuation", n, <<>>))) ELSE RawLoop(p, <<>>, 0)

yylex_RAW(m) == RawTrimLeft(m)

(***************************************************************************)
(* yylex and the file stack's end-of-context hook.                         *)
(***************************************************************************)
LexerState_clear(ls, lineNo_) == [ls EXCEPT !.mode = "LEXER_NORMAL", !.atLineStart = TRUE, !.lastToken = "YYEOF", !.nextToken = "none", !.ifStack = <<>>, !.capturing = FALSE, !.hasCaptureBuf = FALSE, !.captureBuf = <<>>, !.disableMacroArgs = FALSE, !.disableInterpolation = FALSE, !.macroArgScanDistance = 0, !.expandStrings = TRUE, !.expansions = <<>>, !.lineNo = lineNo_]

\* A slip: the replay is restarted where the last one ended.
lexer_RestartReptNoRewind(m, lineNo) == [m EXCEPT !.ls = LexerState_clear(m.ls, lineNo)]

lexer_RestartRept(m, lineNo) == [m EXCEPT !.ls = LexerState_clear([m.ls EXCEPT !.offset = IF m.ls.viewed THEN 0 ELSE @], lineNo)]

\* yywrap of the file stack: reports an IF left open, then starts the next
\* replay of a REPT/FOR body, or resumes the parent context, or answers
\* TRUE (in `done`) when there is none.
yywrap(m) == LET r == IF m.ls.ifStack # <<>> THEN error(m, "Ended block with unterminated IF construct") ELSE m IN IF r.fstk.kind = "rept" /\ r.fstk.iters > 1 THEN [lexer_RestartRept([r EXCEPT !.fstk.iters = @ - 1], r.fstk.lineNo) EXCEPT !.done = FALSE] ELSE IF r.fstk.parents = <<>> THEN [r EXCEPT !.done = TRUE] ELSE [r EXCEPT !.done = FALSE, !.ls = r.fstk.parents[1].ls, !.fstk = r.fstk.parents[1].fstk]

\* A slip: the scheduled context is taken up wherever the line stands.
SwitchesContextAnywhere(ls, eol) == eol.present

\* Whether this call of yylex makes the scheduled context the active one.
SwitchesContext(ls, eol) == ls.atLineStart /\ eol.present

SwitchContext(m, eol) == [m EXCEPT !.ls = eol.ls, !.fstk = [eol.fstk EXCEPT !.parents = <<[ls |-> m.ls, fstk |-> m.fstk]>> \o m.fstk.parents]]

LexerModeFuncs(m) == CASE m.ls.mode = "LEXER_NORMAL" -> Call("yylex_NORMAL", m, <<>>) [] m.ls.mode = "LEXER_RAW" -> Call("yylex_RAW", m, <<>>) [] m.ls.mode = "LEXER_SKIP_TO_ELIF" -> Call("yylex_SKIP_TO_ELIF", m, <<>>) [] m.ls.mode = "LEXER_SKIP_TO_ENDC" -> Call("yylex_SKIP_TO_ENDC", m, <<>>) [] m.ls.mode = "LEXER_SKIP_TO_ENDR" -> Call("yylex_SKIP_TO_ENDR", m, <<>>) [] OTHER -> Unmodelled(m)

\* A slip: the synthetic end of line counts as a line start too.
LineStartAfterAnyEOL(type) == type = "NEWLINE" \/ type = "EOB" \/ type = "EOL"

\* The line-start flag yylex leaves behind for a token of the given type.
LineStartAfter(type) == type = "NEWLINE" \/ type = "EOB"

YylexFinish(m) == LET type == IF m.token.type = "YYEOF" /\ ~m.ls.capturing THEN "EOB" ELSE m.token.type IN IF Dead(m) THEN m ELSE [m EXCEPT !.token.type = type, !.ls.lastToken = type, !.ls.atLineStart = LineStartAfter(type)]

YylexBody(m) == YylexFinish(LexerModeFuncs(IF m.ls.atLineStart /\ m.ls.expansions = <<>> THEN nextLine(m) ELSE m))

yylex(m, eol) == LET s == IF SwitchesContext(m.ls, eol) THEN SwitchContext(m, eol) ELSE m IN IF s.ls.lastToken = "EOB" THEN (LET w == yywrap(s) IN IF w.done THEN [w EXCEPT !.token = Token("YYEOF")] ELSE YylexBody(w)) ELSE YylexBody([s EXCEPT !.done = FALSE])

(***************************************************************************)
(* The capture recorder.                                                   *)
(***************************************************************************)
startCapture(m) == LET s == [m EXCEPT !.ls.capturing = TRUE, !.ls.captureSize = 0] lineNo == s.ls.lineNo IN IF s.ls.viewed /\ s.ls.expansions = <<>> THEN [s EXCEPT !.capture = [lineNo |-> lineNo, span |-> [ptr |-> "view", base |-> s.ls.offset, buf |-> <<>>, size |-> 0]]] ELSE [s EXCEPT !.ls.hasCaptureBuf = TRUE, !.ls.captureBuf = <<>>, !.capture = [lineNo |-> lineNo, span |-> [ptr |-> "null", base |-> 0, buf |-> <<>>, size |-> 0]]]

endCapture(m) == LET owning == m.capture.span.ptr = "null" IN [m EXCEPT !.capture.span.ptr = IF owning THEN "buf" ELSE @, !.capture.span.buf = IF owning THEN m.ls.captureBuf ELSE @, !.capture.span.size = m.ls.captureSize, !.ls.atLineStart = FALSE, !.ls.capturing = FALSE, !.ls.hasCaptureBuf = FALSE, !.ls.captureBuf = <<>>]

\* A slip: the sentinel keyword is left in the span.
TrimSentinelNot(size) == size

\* `capture.span.size -= literal_strlen("ENDR")`, on a size_t.
TrimSentinel(size) == size - 4

\* endCapture and the removal of the sentinel; the function returns.
CaptureEndAtSentinel(m) == LET e == endCapture(m) IN [e EXCEPT !.capture.span.size = TrimSentinel(@), !.done = TRUE]

\* A slip: the capture that hit the end of input keeps its span pointer.
CaptureAtEOFKeepsSpan(m, msg) == [endCapture(error(m, msg)) EXCEPT !.done = TRUE]

\* The end-of-file branch of both capture functions; the function returns.
CaptureAtEOF(m, msg) == [endCapture(error(m, msg)) EXCEPT !.capture.span.ptr = "null", !.capture.span.buf = <<>>, !.done = TRUE]

\* `do { c = bumpChar(); } while (isWhitespace(c));`
RECURSIVE CaptureLeadingWhitespace(_)
CaptureLeadingWhitespace(m) == LET b == Call("bumpChar", m, <<>>) IN IF Dead(b) \/ ~isWhitespace(b.c) THEN b ELSE CaptureLeadingWhitespace(b)

\* `for (;; c = bumpChar())`: consume characters until EOL or EOF, starting
\* from the character c already read.
RECURSIVE CaptureRestOfLine(_, _)
CaptureRestOfLine(m, msg) == IF Dead(m) THEN m ELSE IF m.c = EOF THEN CaptureAtEOF(m, msg) ELSE IF m.c = "\n" \/ m.c = "\r" THEN [Call("handleCRLF", m, <<m.c>>) EXCEPT !.done = FALSE] ELSE CaptureRestOfLine(Call("bumpChar", m, <<>>), msg)

\* A slip: a nested REPT or FOR is not counted.
NestedDepthFlat(depth) == depth

\* `++depth` at a REPT or FOR that is first on its line.
NestedDepth(depth) == depth + 1

\* The switch of lexer_CaptureRept on the identifier read at a line start;
\* c is the identifier's first character and num carries `depth`.
CaptureReptSwitch(m, c, depth) == LET type == m.token.type rest(d) == CaptureRestOfLine([m EXCEPT !.c = c, !.num = d], "Unterminated REPT/FOR block") IN IF Dead(m) THEN m ELSE IF type = "POP_REPT" \/ type = "POP_FOR" THEN rest(NestedDepth(depth)) ELSE IF type = "POP_ENDR" THEN (IF depth # 0 THEN rest(depth - 1) ELSE CaptureEndAtSentinel(m)) ELSE rest(depth)

\* One turn of the line loop of lexer_CaptureRept; `done` tells that the
\* function has returned.
CaptureReptLine(m, depth) == LET w == CaptureLeadingWhitespace(nextLine(m)) IN IF Dead(w) THEN w ELSE IF startsIdentifier(w.c) THEN CaptureReptSwitch(Call("readIdentifier", w, <<w.c, FALSE>>), w.c, depth) ELSE CaptureRestOfLine([w EXCEPT !.num = depth], "Unterminated REPT/FOR block")

RECURSIVE CaptureReptLoop(_, _)
CaptureReptLoop(m, depth) == LET l == Call("CaptureReptLine", m, <<depth>>) IN IF Dead(l) \/ l.done THEN l ELSE CaptureReptLoop(l, l.num)

lexer_CaptureRept(m) == reenableExpansions(CaptureReptLoop(scopedDisableExpansions(startCapture(m)), 0))

\* One turn of the line loop of lexer_CaptureMacro.
CaptureMacroLine(m) == LET w == CaptureLeadingWhitespace(nextLine(m)) r == Call("readIdentifier", w, <<w.c, FALSE>>) IN IF Dead(w) THEN w ELSE IF startsIdentifier(w.c) /\ ~Dead(r) /\ r.token.type = "POP_ENDM" THEN CaptureEndAtSentinel(r) ELSE IF startsIdentifier(w.c) THEN CaptureRestOfLine([r EXCEPT !.c = w.c], "Unterminated macro definition") ELSE CaptureRestOfLine(w, "Unterminated macro definition")

RECURSIVE CaptureMacroLoop(_)
CaptureMacroLoop(m) == LET l == Call("CaptureMacroLine", m, <<>>) IN IF Dead(l) \/ l.done THEN l ELSE CaptureMacroLoop(l)

lexer_CaptureMacro(m) == reenableExpansions(CaptureMacroLoop(scopedDisableExpansions(startCapture(m))))

\* A call of one lexer function by another.
Call(f, m, a) == CASE f = "peek" -> peek(m) [] f = "shiftChar" -> shiftChar(m) [] f = "bumpChar" -> bumpChar(m) [] f = "nextChar" -> nextChar(m) [] f = "handleCRLF" -> handleCRLF(m, a[1]) [] f = "readDecimalNumber" -> readDecimalNumber(m, a[1]) [] f = "readBracketedMacroArgNum" -> readBracketedMacroArgNum(m) [] f = "readMacroArg" -> readMacroArg(m) [] f = "readInterpolation" -> readInterpolation(m, a[1]) [] f = "readIdentifier" -> readIdentifier(m, a[1], a[2]) [] f = "discardComment" -> discardComment(m) [] f = "discardLineContinuation" -> discardLineContinuation(m) [] f = "reportGarbageCharacters" -> reportGarbageCharacters(m, a[1]) [] f = "skipIfBlock" -> skipIfBlock(m, a[1]) [] f = "yylex_SKIP_TO_ELIF" -> yylex_SKIP_TO_ELIF(m) [] f = "yylex_SKIP_TO_ENDC" -> yylex_SKIP_TO_ENDC(m) [] f = "yylex_SKIP_TO_ENDR" -> yylex_SKIP_TO_ENDR(m) [] f = "yylex_NORMAL" -> yylex_NORMAL(m) [] f = "yylex" -> yylex(m, a[1]) [] f = "yylex_RAW" -> yylex_RAW(m) [] f = "readBinaryNumber" -> readBinaryNumber(m) [] f = "readOctalNumber" -> readOctalNumber(m) [] f = "readHexNumber" -> readHexNumber(m) [] f = "readFractionalPart" -> readFractionalPart(m, a[1]) [] f = "readString" -> readString(m, a[1], a[2]) [] f = "discardBlockComment" -> discardBlockComment(m) [] f = "CaptureReptLine" -> CaptureReptLine(m, a[1]) [] f = "CaptureMacroLine" -> CaptureMacroLine(m) [] f = "lexer_CaptureRept" -> lexer_CaptureRept(m) [] f = "lexer_CaptureMacro" -> lexer_CaptureMacro(m)

(***************************************************************************)
(* SpecPS: a reader pulling characters through peek and shiftChar, as the  *)
(* token readers do (bumpChar is a peek followed by a shiftChar), over a   *)
(* source made of pieces, inside or outside a macro.                       *)
(***************************************************************************)
Pieces == {<<"\\", "1">>, <<"\\", "#">>, <<"\\", "<", "2", ">">>, <<"\\", "<">>, <<"\\">>, <<"a">>, <<"2">>, <<">">>, <<"{", "s", "}">>}

RECURSIVE Flatten(_)
Flatten(seqs) == IF seqs = <<>> THEN <<>> ELSE Head(seqs) \o Flatten(Tail(seqs))

SeqsUpTo(S, n) == UNION {[1..k -> S] : k \in 0..n}

PSSources == {Flatten(ps) : ps \in SeqsUpTo(Pieces, MaxPieces)}

\* The argument lists of the macro invocations considered.
ArgLists == {<< <<"a">>, <<"\\", "1">> >>, << <<"\\">>, <<>> >>, << <<"{", "s", "}">> >>}

UniqueID == <<"_", "u", "1">>

MacroFstk(args) == [inMacro |-> TRUE, args |-> args, hasUID |-> TRUE, uid |-> UniqueID, kind |-> "macro", iters |-> 0, lineNo |-> 0, parents |-> <<>>]

CurrentMachine == [Machine(lexerState, fstk, diags, fatal, hist) EXCEPT !.options = options]

\* Write a machine record back to the variables, noting the operation.
Commit(m, opName, pre) == /\ UNCHANGED options /\ lexerState' = m.ls /\ diags' = m.diags /\ fatal' = m.fatal /\ hist' = [m.hist EXCEPT !.op = opName, !.pre = pre]

Pre == [depth |-> Len(lexerState.ifStack), mode |-> lexerState.mode, nextToken |-> lexerState.nextToken, atLineStart |-> lexerState.atLineStart, ndiags |-> Len(diags), offset |-> lexerState.offset, nexp |-> Len(lexerState.expansions), eolPending |-> lexerStateEOL.present, switched |-> FALSE, lastToken |-> lexerState.lastToken, ifStack |-> lexerState.ifStack, content |-> lexerState.content, nparents |-> Len(fstk.parents)]

NoState == [present |-> FALSE, ls |-> NewLexerState(<<>>, 0), fstk |-> NoFstk]

InitPS == /\ \E src \in PSSources : lexerState = NewLexerState(src, 0) /\ lexerStateEOL = NoState /\ \E f \in {MacroFstk(a) : a \in ArgLists} \cup {NoFstk} : fstk = f /\ tok = NoToken /\ diags = <<>> /\ options = DefaultOptions /\ fatal = "none" /\ parser = [pc |-> "idle", c |-> EOF] /\ hist = [EmptyHist EXCEPT !.trace = TRUE]

PSPeek == /\ fatal = "none" /\ parser.pc # "eof" /\ LET m == Call("peek", CurrentMachine, <<>>) IN /\ Commit(m, "peek", Pre) /\ parser' = [pc |-> IF m.c = EOF THEN "eof" ELSE "peeked", c |-> m.c] /\ UNCHANGED <<lexerStateEOL, fstk, tok>>

PSShift == /\ fatal = "none" /\ parser.pc = "peeked" /\ LET m == Call("shiftChar", CurrentMachine, <<>>) IN /\ Commit([m EXCEPT !.hist.delivered = Append(@, parser.c)], "shift", Pre) /\ parser' = [pc |-> "idle", c |-> parser.c] /\ UNCHANGED <<lexerStateEOL, fstk, tok>>

NextPS == PSPeek \/ PSShift

SpecPS == InitPS /\ [][NextPS]_vars

(***************************************************************************)
(* Properties of the peek/shift primitive (SpecPS).                        *)
(***************************************************************************)
Substs == {hist.substs[k] : k \in 1..Len(hist.substs)}

\* The characters shifted after a substitution are the argument's, in order,
\* and so are the characters peek returns for them.
PaintedVerbatim ==
  \A r \in Substs :
    /\ \A i \in 1..Len(r.text) : (r.at + i <= Len(hist.shifted)) => (hist.shifted[r.at + i] = r.text[i])
    /\ (hist.op = "peek" /\ r.at <= Len(hist.shifted) /\ Len(hist.shifted) < r.at + Len(r.text))
         => (parser.c = r.text[Len(hist.shifted) - r.at + 1])

\* No substitution has its introducer among the characters of another one.
NoExpansionInsidePaint == \A r, q \in Substs : ~(r.at <= q.start /\ q.start < r.at + Len(r.text))

\* Once the last character of the argument has been shifted the counter is
\* back to zero: the next peek examines its character.
ExaminedAfterPaint == \A r \in Substs : (hist.op = "shift" /\ Len(r.text) > 0 /\ Len(hist.shifted) = r.at + Len(r.text)) => lexerState.macroArgScanDistance = 0

\* C1: paint-blue law. After peek substitutes a macro argument of length L,
\* the next L characters obtained through peek/shift are the argument's
\* characters verbatim, none of them starts a further macro-argument
\* expansion, and the character after them is examined normally again.
C1_PaintBlue == PaintedVerbatim /\ NoExpansionInsidePaint /\ ExaminedAfterPaint

\* An argument that itself spells `\1` has been substituted and shifted out.
C1_Witness == \E r \in Substs : r.text = <<"\\", "1">> /\ hist.op = "shift" /\ Len(hist.shifted) = r.at + 2

\* What a source delivers inside a macro with arguments args: `\k`, `\<k>`
\* and `\#` replaced, a backslash before any other character kept with it.
RECURSIVE ExpectedFrom(_, _, _)
ExpectedFrom(src, i, args) == IF i > Len(src) THEN <<>> ELSE IF src[i] # "\\" THEN <<src[i]>> \o ExpectedFrom(src, i + 1, args) ELSE IF i = Len(src) THEN <<"\\">> ELSE LET n == src[i + 1] IN IF n = "#" THEN JoinArgs(args) \o ExpectedFrom(src, i + 2, args) ELSE IF n = "<" THEN args[DigitVal[src[i + 2]]] \o ExpectedFrom(src, i + 4, args) ELSE IF isMacroChar(n) THEN args[DigitVal[n]] \o ExpectedFrom(src, i + 2, args) ELSE <<"\\", n>> \o ExpectedFrom(src, i + 2, args)

\* The source holds only the introducers the claim is about, each naming a
\* defined argument: `\k` and `\<k>` with 1 <= k <= n, and `\#`.
RECURSIVE CoveredFrom(_, _, _)
CoveredFrom(src, i, args) == IF i > Len(src) THEN TRUE ELSE IF src[i] = "{" THEN FALSE ELSE IF src[i] # "\\" THEN CoveredFrom(src, i + 1, args) ELSE IF i = Len(src) THEN TRUE ELSE LET n == src[i + 1] IN IF n = "#" THEN CoveredFrom(src, i + 2, args) ELSE IF n = "<" THEN i + 3 <= Len(src) /\ src[i + 2] \in Digits /\ DigitVal[src[i + 2]] \in 1..Len(args) /\ src[i + 3] = ">" /\ CoveredFrom(src, i + 4, args) ELSE IF n = "@" THEN FALSE ELSE IF isMacroChar(n) THEN DigitVal[n] \in 1..Len(args) /\ CoveredFrom(src, i + 2, args) ELSE CoveredFrom(src, i + 2, args)

IsPrefix(a, b) == Len(a) <= Len(b) /\ \A i \in 1..Len(a) : a[i] = b[i]

\* C2: inside a macro invoked with A1..An, the characters delivered in place
\* of `\k` or `\<k>` (1 <= k <= n) are exactly those of Ak and in place of
\* `\#` those of A1,...,An joined by commas; the introducer is never
\* delivered and the source continues right after it.
C2_ArgsDelivered ==
  (fstk.inMacro /\ CoveredFrom(lexerState.content, 1, fstk.args)) =>
    /\ IsPrefix(hist.delivered, ExpectedFrom(lexerState.content, 1, fstk.args))
    /\ (parser.pc = "eof") => (hist.delivered = ExpectedFrom(lexerState.content, 1, fstk.args))
    /\ diags = <<>>

\* `\<2>\#\1` has been read to its end inside a macro with two arguments.
C2_Witness == fstk.inMacro /\ Len(fstk.args) = 2 /\ lexerState.content = <<"\\", "<", "2", ">", "\\", "#", "\\", "1">> /\ parser.pc = "eof" /\ hist.delivered = fstk.args[2] \o fstk.args[1] \o <<",">> \o fstk.args[2] \o fstk.args[1]

(***************************************************************************)
(* Spec: the parser pulls tokens with yylex and drives the conditional     *)
(* stack; the file stack schedules and ends contexts.                      *)
(***************************************************************************)
LineIF == <<"I", "F", " ", "x", "\n">>

LineELSE == <<"E", "L", "S", "E", "\n">>

LineENDC == <<"E", "N", "D", "C", "\n">>

\* An ELIF whose condition starts with a word that spells a keyword.
LineELIFWord == <<"E", "L", "I", "F", " ", "E", "N", "D", "C", "\n">>

LineBREAK == <<"B", "R", "E", "A", "K", "\n">>

\* Text with a macro argument, an interpolation, a keyword in mid-line and `]]`.
LineText == <<"x", " ", "\\", "1", "{", "s", "}", " ", "E", "L", "S", "E", " ", "]", "]", "\n">>

\* A whole conditional with all its branches, partly indented.
LineNested == <<" ", "I", "F", " ", "x", "\n", "E", "L", "I", "F", " ", "x", "\n", "E", "L", "S", "E", "\n", " ", "E", "N", "D", "C", "\n">>

Lines == {LineIF, LineELSE, LineENDC, LineELIFWord, LineBREAK, LineText, LineNested}

\* A source starts with nothing, with an IF or with a BREAK.
FirstLines == {<<>>, LineIF, LineBREAK}

Sources == {first \o Flatten(ls) : first \in FirstLines, ls \in SeqsUpTo(Lines, MaxLines)}

\* The bodies of the macros the source can invoke; each is run at most once.
ChildBodies == {<<"x", "\n">>}

ReptFstk == [inMacro |-> FALSE, args |-> <<>>, hasUID |-> TRUE, uid |-> UniqueID, kind |-> "rept", iters |-> 1, lineNo |-> 0, parents |-> <<>>]

ParserIdle == [pc |-> "lex", c |-> EOF, line |-> <<>>, todo |-> "none", sched |-> {}, ended |-> FALSE]

Init == /\ \E src \in Sources : lexerState = NewLexerState(src, 0)
        /\ lexerStateEOL = NoState
        /\ fstk \in {NoFstk, ReptFstk}
        /\ tok = NoToken
        /\ diags = <<>> /\ options = DefaultOptions
        /\ fatal = "none"
        /\ parser = ParserIdle
        /\ hist = EmptyHist

\* What the grammar does with the token just read, given the tokens of the
\* line so far: ENDC acts at once, IF/ELIF/ELSE/BREAK at their line's end.
ParserTodo(line, type) == CASE line = <<>> /\ type = "POP_ENDC" -> "endc" [] type = "NEWLINE" /\ Len(line) = 2 /\ line[1] = "POP_IF" /\ line[2] \in {"SYMBOL", "NUMBER"} -> "if" [] type = "NEWLINE" /\ Len(line) = 2 /\ line[1] = "POP_ELIF" /\ line[2] \in {"SYMBOL", "NUMBER"} -> "elif" [] type = "NEWLINE" /\ line = <<"POP_ELSE">> -> "else" [] type = "NEWLINE" /\ line = <<"POP_BREAK">> -> "break" [] OTHER -> "none"

ParserLine(line, type) == IF type \in {"NEWLINE", "EOB", "YYEOF"} THEN <<>> ELSE IF Len(line) < 3 THEN Append(line, type) ELSE line

PreLex == [Pre EXCEPT !.switched = SwitchesContext(lexerState, lexerStateEOL), !.lastToken = lexerState.lastToken]

Yylex == /\ fatal = "none"
         /\ parser.pc = "lex"
         /\ ~parser.ended
         /\ LET m == Call("yylex", [CurrentMachine EXCEPT !.hist.kwlog = <<>>, !.hist.expGrew = FALSE, !.hist.skipped = FALSE], <<lexerStateEOL>>)
                todo == ParserTodo(parser.line, m.token.type)
            IN /\ Commit(m, "yylex", PreLex)
               /\ fstk' = m.fstk
               /\ tok' = m.token
               /\ lexerStateEOL' = IF SwitchesContext(lexerState, lexerStateEOL) THEN NoState ELSE lexerStateEOL
               /\ parser' = [parser EXCEPT !.pc = IF Dead(m) \/ todo = "none" THEN "lex" ELSE "act", !.todo = IF Dead(m) THEN "none" ELSE todo, !.line = ParserLine(@, m.token.type), !.ended = m.token.type = "YYEOF"]

ParserDone(m, opName) == /\ Commit(m, opName, Pre)
                         /\ parser' = [parser EXCEPT !.pc = "lex", !.todo = "none"]
                         /\ UNCHANGED <<lexerStateEOL, fstk, tok>>

ParserIfAct(m, cond) == IF cond THEN lexer_RunIFBlock(lexer_IncIFDepth(m)) ELSE lexer_SetMode(lexer_IncIFDepth(m), "LEXER_SKIP_TO_ELIF")

ParserIf == /\ fatal = "none"
            /\ parser.pc = "act"
            /\ parser.todo = "if"
            /\ \E cond \in BOOLEAN : ParserDone(ParserIfAct(CurrentMachine, cond), "if")

ParserElifAct(m, cond) == IF lexer_GetIFDepth(m) = 0 THEN fatalError(m, "Found ELIF outside of an IF construct") ELSE IF lexer_RanIFBlock(m) THEN (IF lexer_ReachedELSEBlock(m) THEN fatalError(m, "Found ELIF after an ELSE block") ELSE lexer_SetMode(m, "LEXER_SKIP_TO_ENDC")) ELSE IF cond THEN lexer_RunIFBlock(m) ELSE lexer_SetMode(m, "LEXER_SKIP_TO_ELIF")

ParserElif == /\ fatal = "none"
              /\ parser.pc = "act"
              /\ parser.todo = "elif"
              /\ \E cond \in BOOLEAN : ParserDone(ParserElifAct(CurrentMachine, cond), "elif")

ParserElseAct(m) == IF lexer_GetIFDepth(m) = 0 THEN fatalError(m, "Found ELSE outside of an IF construct") ELSE IF lexer_RanIFBlock(m) THEN (IF lexer_ReachedELSEBlock(m) THEN fatalError(m, "Found ELSE after an ELSE block") ELSE lexer_SetMode(lexer_ReachELSEBlock(m), "LEXER_SKIP_TO_ENDC")) ELSE lexer_ReachELSEBlock(lexer_RunIFBlock(m))

ParserElse == /\ fatal = "none"
              /\ parser.pc = "act"
              /\ parser.todo = "else"
              /\ ParserDone(ParserElseAct(CurrentMachine), "else")

ParserEndc == /\ fatal = "none"
              /\ parser.pc = "act"
              /\ parser.todo = "endc"
              /\ ParserDone(lexer_DecIFDepth(CurrentMachine), "endc")

\* BREAK leaves a REPT/FOR body by skipping to its end.
ParserBreakAct(m) == IF m.fstk.kind = "rept" THEN lexer_SetMode(m, "LEXER_SKIP_TO_ENDR") ELSE error(m, "BREAK can only be used inside a REPT/FOR block")

ParserBreak == /\ fatal = "none"
               /\ parser.pc = "act"
               /\ parser.todo = "break"
               /\ ParserDone(ParserBreakAct(CurrentMachine), "break")

\* LexerState::setViewAsNextState: the new context waits in lexerStateEOL.
\* The parser's directives start a context when their line has ended, be it
\* with a newline or with the end-of-line token of `]]`.
setViewAsNextState(content, lineNo_, ctx) == [present |-> TRUE, ls |-> NewLexerState(content, lineNo_), fstk |-> ctx]

ScheduleContext == /\ fatal = "none"
                   /\ parser.pc = "lex"
                   /\ ~parser.ended
                   /\ ~lexerStateEOL.present
                   /\ tok.type \in {"NEWLINE", "EOL"}
                   /\ \E body \in ChildBodies \ parser.sched :
                         /\ lexerStateEOL' = setViewAsNextState(body, lexerState.lineNo, MacroFstk(<<<<"a">>>>))
                         /\ parser' = [parser EXCEPT !.sched = @ \cup {body}]
                   /\ hist' = [hist EXCEPT !.op = "schedule", !.pre = Pre]
                   /\ UNCHANGED <<lexerState, fstk, tok, diags, fatal, options>>

Next == Yylex \/ ParserIf \/ ParserElif \/ ParserElse \/ ParserEndc \/ ParserBreak \/ ScheduleContext

Spec == Init /\ [][Next]_vars

\* Model sanity: the sources never lead into a branch left out of the model.
ModelCoversTokens == tok.type # "UNMODELLED"

(***************************************************************************)
(* Properties of the skippers (Spec).                                      *)
(***************************************************************************)
\* Whether the character at 0-based offset pos of content is the first
\* non-whitespace character of its source line (pos < 0: it is not in the
\* content at all, but in an expansion).
RECURSIVE FirstOnLine(_, _)
FirstOnLine(content, pos) == IF pos <= 0 THEN pos = 0 ELSE IF content[pos] \in {"\n", "\r"} THEN ~(pos >= 2 /\ content[pos - 1] = "\\") ELSE IF isWhitespace(content[pos]) THEN FirstOnLine(content, pos - 1) ELSE FALSE

\* The last call of yylex ran skipIfBlock / any skipper.
IfSkipRan == hist.op = "yylex" /\ hist.skipped /\ hist.skipInfo.fn = "skipIfBlock"

AnySkipRan == hist.op = "yylex" /\ hist.skipped

\* Whether a logged keyword is one that must end a skip started at depth d.
EndsSkip(e, d, toEndc) == Len(e.stackBefore) = d /\ (e.type = "POP_ENDC" \/ (~toEndc /\ e.type \in {"POP_ELIF", "POP_ELSE"}))

C3_Entry(e, i, n, d, toEndc) ==
    /\ Len(e.stackBefore) >= d
    /\ Len(e.stackAfter) >= d
    /\ (e.effect = "return") = EndsSkip(e, d, toEndc)
    /\ (e.effect = "return" => (i = n /\ e.type = tok.type /\ e.stackAfter = lexerState.ifStack /\ Len(lexerState.ifStack) = d))
    /\ (e.effect = "return" /\ ~toEndc => FirstOnLine(lexerState.content, e.pos))
    /\ (e.type = "POP_IF" => Len(e.stackAfter) = Len(e.stackBefore) + 1)
    /\ (e.type = "POP_ENDC" /\ e.effect # "return" => Len(e.stackAfter) = Len(e.stackBefore) - 1)
    /\ (e.type \in {"POP_ELIF", "POP_ELSE"} => Len(e.stackAfter) = Len(e.stackBefore))

\* C3: a skip by skipIfBlock that starts at IF depth d returns only at an
\* ELIF, ELSE or ENDC met at depth d (first on its line in skip-to-elif), or
\* at the end of the content; nested IF...ENDC are pushed and popped, nested
\* ELIF/ELSE never end it, the depth on return is d again, and skip-to-endc
\* returns at ENDC only.
C3_SkipEndsAtStartingDepth ==
    (IfSkipRan /\ fatal = "none") =>
        LET info == hist.skipInfo
            log == hist.kwlog
        IN /\ \A i \in 1..Len(log) : C3_Entry(log[i], i, Len(log), info.depth, info.toEndc)
           /\ tok.type \in (IF info.toEndc THEN {"POP_ENDC", "EOB"} ELSE {"POP_ELIF", "POP_ELSE", "POP_ENDC", "EOB"})
           /\ (tok.type # "EOB" => (log # <<>> /\ log[Len(log)].effect = "return"))

C3_Witness ==
    /\ IfSkipRan
    /\ fatal = "none"
    /\ ~hist.skipInfo.toEndc
    /\ tok.type = "POP_ELSE"
    /\ \E i \in 1..Len(hist.kwlog) : hist.kwlog[i].type = "POP_ELSE" /\ hist.kwlog[i].effect = "none"
    /\ \E i \in 1..Len(hist.kwlog) : hist.kwlog[i].type = "POP_ENDC" /\ hist.kwlog[i].effect = "pop"

\* C4: when normal mode meets ELIF first on a line in a frame that already
\* ran a block, the skip it starts reads nothing of the ELIF's own line as a
\* keyword, and the token delivered next is the ENDC closing the frame or
\* the end of the content.
C4_ElifSkipsToClosingEndc ==
    (IfSkipRan /\ ~hist.skipInfo.viaMode /\ fatal = "none") =>
        /\ tok.type \in {"POP_ENDC", "EOB"}
        /\ \A i \in 1..Len(hist.kwlog) : FirstOnLine(lexerState.content, hist.kwlog[i].pos)
        /\ (tok.type = "POP_ENDC" => Len(lexerState.ifStack) = hist.skipInfo.depth)

\* C5: an ENDC on an empty IF stack is fatal, otherwise it removes exactly
\* the innermost frame: in the parser's ENDC action and in every skipper,
\* skip-to-endr included.
C5_EndcPopsOrFatal ==
    /\ \A i \in 1..Len(hist.kwlog) :
          LET e == hist.kwlog[i]
          IN (e.type = "POP_ENDC" /\ e.effect # "return") =>
                 IF e.stackBefore = <<>> THEN e.fatal /\ e.stackAfter = <<>> ELSE ~e.fatal /\ e.stackAfter = Tail(e.stackBefore)
    /\ (hist.op = "endc" =>
          IF hist.pre.ifStack = <<>> THEN fatal # "none" /\ lexerState.ifStack = <<>> ELSE fatal = "none" /\ lexerState.ifStack = Tail(hist.pre.ifStack))

C5_Witness == \E i \in 1..Len(hist.kwlog) : hist.kwlog[i].fn = "yylex_SKIP_TO_ENDR" /\ hist.kwlog[i].type = "POP_ENDC" /\ hist.kwlog[i].fatal

\* What an ELSE met by a skipper must do to the frame on top of the stack.
ElseLaw(e) == IF e.stackBefore[1].reachedElseBlock THEN e.fatal ELSE ~e.fatal /\ e.stackAfter = [e.stackBefore EXCEPT ![1].reachedElseBlock = TRUE]

\* C6 (as amended): in skip-to-elif and skip-to-endc a first-on-line ELSE in
\* a frame whose reachedElseBlock is set is fatal, for the skipped frame and
\* for nested ones; otherwise it sets reachedElseBlock of the innermost frame
\* only. Skip-to-endr does not look at ELSE.
C6_ElseAfterElseInIfSkip == \A i \in 1..Len(hist.kwlog) : (hist.kwlog[i].fn = "skipIfBlock" /\ hist.kwlog[i].type = "POP_ELSE") => ElseLaw(hist.kwlog[i])

C6_Witness == \E i \in 1..Len(hist.kwlog) : hist.kwlog[i].fn = "skipIfBlock" /\ hist.kwlog[i].type = "POP_ELSE" /\ hist.kwlog[i].fatal

\* C6 as first stated: the same for every skip mode, skip-to-endr included.
C6_ElseAfterElseInEverySkip == \A i \in 1..Len(hist.kwlog) : (hist.kwlog[i].type = "POP_ELSE" /\ hist.kwlog[i].stackBefore # <<>>) => ElseLaw(hist.kwlog[i])

\* C7: in the skip modes a keyword changes the IF stack or ends the skip
\* only when it is the first non-whitespace token of its source line,
\* however the skip was entered.
C7_KeywordsOnlyFirstOnLine ==
    \A i \in 1..Len(hist.kwlog) :
        LET e == hist.kwlog[i]
        IN (e.effect # "none" \/ e.stackBefore # e.stackAfter) => FirstOnLine(lexerState.content, e.pos)

\* C8: a skipper expands nothing: the expansion stack does not grow, the
\* skipped text raises no diagnostic, and when the skipper returns both
\* on-the-fly expansions are enabled again.
C8_NoExpansionInSkip ==
    AnySkipRan =>
        /\ ~hist.expGrew
        /\ Len(lexerState.expansions) <= hist.skipInfo.nexp
        /\ Len(diags) = hist.skipInfo.ndiags
        /\ (fatal = "none" => ~lexerState.disableMacroArgs /\ ~lexerState.disableInterpolation)

C8_Witness ==
    /\ AnySkipRan
    /\ fatal = "none"
    /\ \E i \in (hist.skipInfo.offset + 1)..(lexerState.offset - 1) : lexerState.content[i] = "\\" /\ lexerState.content[i + 1] = "1"
    /\ \E i \in (hist.skipInfo.offset + 1)..lexerState.offset : lexerState.content[i] = "{"

\* C9 (as amended): right after yylex returns, atLineStart is true if the
\* token is NEWLINE or the end of the buffer (EOB), and false after every
\* other token, the synthetic end of line of `]]` included; the final
\* end-of-input answer leaves it as it was, true.
C9_LineStartAfterNewlineOrEOB == (hist.op = "yylex" /\ fatal = "none") => (lexerState.atLineStart = (tok.type \in {"NEWLINE", "EOB", "YYEOF"}))

C9_Witness == hist.op = "yylex" /\ fatal = "none" /\ tok.type = "EOL" /\ ~lexerState.atLineStart

\* The tokens that stand for an end of line.
EndOfLineTokens == {"NEWLINE", "EOL"}

\* C9 as first stated: atLineStart is true after an end-of-line token and
\* false after any other token.
C9_LineStartAfterEndOfLine == (hist.op = "yylex" /\ fatal = "none") => (lexerState.atLineStart = (tok.type \in EndOfLineTokens))

\* C10: `]]` in normal mode yields the synthetic end of line with RBRACKS
\* queued; the next call of yylex, in the same context and without reading
\* input, yields RBRACKS from the queue and leaves the queue empty.
C10_RBracksFollowEOL ==
    /\ (hist.op = "yylex" /\ fatal = "none" /\ tok.type = "EOL") => (lexerState.nextToken = "RBRACKS" /\ hist.pre.nextToken = "none")
    /\ (hist.op = "yylex" /\ fatal = "none" /\ hist.pre.lastToken = "EOL") =>
          /\ tok.type = "RBRACKS"
          /\ ~hist.pre.switched
          /\ hist.pre.nextToken = "RBRACKS"
          /\ lexerState.nextToken = "none"
          /\ lexerState.offset = hist.pre.offset
          /\ Len(lexerState.expansions) = hist.pre.nexp
    /\ (tok.type = "EOL" /\ fatal = "none" => ~SwitchesContext(lexerState, lexerStateEOL))

C10_Witness == hist.op = "yylex" /\ hist.pre.lastToken = "EOL" /\ tok.type = "RBRACKS" /\ hist.pre.eolPending /\ lexerStateEOL.present


(***************************************************************************)
(* SpecCap: the parser has read a REPT, FOR or MACRO line and calls the    *)
(* capture function, which reads the text that follows line by line.       *)
(***************************************************************************)
CapLineX == <<"x", "\n">>

CapLineREPT == <<"R", "E", "P", "T", "\n">>

\* A nested FOR in mixed case, indented, with an ENDR further on its line.
CapLineFor == <<" ", "f", "O", "R", " ", "x", " ", "E", "N", "D", "R", "\n">>

CapLineENDR == <<"E", "N", "D", "R", "\n">>

\* An indented sentinel in mixed case, with a carriage return and line feed.
CapLineEndr == <<"\t", "e", "n", "d", "R", "\r", "\n">>

CapLineEndm == <<" ", "e", "n", "d", "M", "\n">>

\* Keywords that are not first on their line.
CapLineMid == <<"x", " ", "E", "N", "D", "R", " ", "R", "E", "P", "T", " ", "E", "N", "D", "M", "\n">>

\* A sentinel with no line end: the last line of a file, or the head of a
\* longer identifier when more text follows.
CapLineBare == <<"E", "N", "D", "R">>

CapLineBareM == <<"E", "N", "D", "M">>

CapLines == {CapLineX, CapLineREPT, CapLineFor, CapLineENDR, CapLineEndr, CapLineEndm, CapLineMid, CapLineBare, CapLineBareM}

\* The text starts with nothing, with plain text or with a nested FOR or REPT.
CapFirstLines == {<<>>, CapLineX, CapLineFor, CapLineREPT}

CapSources == {first \o Flatten(ls) : first \in CapFirstLines, ls \in SeqsUpTo(CapLines, MaxCapLines)}

\* How the context stands when the capture starts: a viewed file, a buffered
\* one, or an expansion whose frame holds the first `split` characters of
\* the text after the line that asked for the capture.
CapStarts == {[viewed |-> TRUE, inExpansion |-> FALSE, split |-> 0], [viewed |-> FALSE, inExpansion |-> FALSE, split |-> 0], [viewed |-> TRUE, inExpansion |-> TRUE, split |-> 0], [viewed |-> TRUE, inExpansion |-> TRUE, split |-> 2], [viewed |-> TRUE, inExpansion |-> TRUE, split |-> 6]}

CapState(src, st) == LET k == IF st.split < Len(src) THEN st.split ELSE Len(src) ls == NewLexerState(SubSeq(src, k + 1, Len(src)), 1) IN IF st.inExpansion THEN [ls EXCEPT !.expansions = <<[name |-> SomeStr(<<"s">>), contents |-> <<"x", "\n">> \o SubSeq(src, 1, k), offset |-> 2]>>] ELSE [ls EXCEPT !.viewed = st.viewed]

\* The characters a state has yet to deliver, expansions first.
RECURSIVE RemainingFrames(_)
RemainingFrames(exps) == IF exps = <<>> THEN <<>> ELSE SubSeq(Head(exps).contents, Head(exps).offset + 1, Len(Head(exps).contents)) \o RemainingFrames(Tail(exps))

Remaining(ls) == RemainingFrames(ls.expansions) \o SubSeq(ls.content, ls.offset + 1, Len(ls.content))

InitCap == /\ \E src \in CapSources, st \in CapStarts : lexerState = CapState(src, st)
           /\ lexerStateEOL = NoState
           /\ fstk = NoFstk
           /\ tok = NoToken
           /\ diags = <<>> /\ options = DefaultOptions
           /\ fatal = "none"
           /\ parser = [pc |-> "start", fn |-> "none", depth |-> 0, capture |-> NoCapture, text |-> Remaining(lexerState), viewStart |-> lexerState.offset]
           /\ hist = [EmptyHist EXCEPT !.trace = TRUE]

CapMachine == [CurrentMachine EXCEPT !.capture = parser.capture]

\* The entry of a capture function: startCapture and scopedDisableExpansions.
CapEnter(fn) == /\ LET m == scopedDisableExpansions(startCapture(CapMachine))
                   IN /\ Commit(m, "startCapture", Pre)
                      /\ parser' = [parser EXCEPT !.pc = fn, !.fn = fn, !.capture = m.capture]
                /\ UNCHANGED <<lexerStateEOL, fstk, tok>>

CaptureReptEnter == /\ parser.pc = "start"
                    /\ CapEnter("rept")

CaptureMacroEnter == /\ parser.pc = "start"
                     /\ CapEnter("macro")

\* One line of the capture; the Defer runs when the function returns.
CapLineStep(m) == /\ Commit(IF m.done THEN reenableExpansions(m) ELSE m, "captureLine", Pre)
                  /\ parser' = [parser EXCEPT !.pc = IF m.done THEN "done" ELSE @, !.depth = m.num, !.capture = m.capture]
                  /\ UNCHANGED <<lexerStateEOL, fstk, tok>>

CaptureReptStep == /\ parser.pc = "rept"
                   /\ CapLineStep(Call("CaptureReptLine", CapMachine, <<parser.depth>>))

CaptureMacroStep == /\ parser.pc = "macro"
                    /\ CapLineStep([Call("CaptureMacroLine", CapMachine, <<>>) EXCEPT !.num = 0])

NextCap == CaptureReptEnter \/ CaptureMacroEnter \/ CaptureReptStep \/ CaptureMacroStep

SpecCap == InitCap /\ [][NextCap]_vars

(***************************************************************************)
(* Properties of the capture recorder (SpecCap).                           *)
(***************************************************************************)
\* The bytes a capture's span denotes.
SpanBytes(cap) == IF cap.span.ptr = "view" THEN SubSeq(lexerState.content, cap.span.base + 1, cap.span.base + cap.span.size) ELSE IF cap.span.ptr = "buf" THEN SubSeq(cap.span.buf, 1, cap.span.size) ELSE <<>>

\* The capture function has returned, having found its sentinel.
CapAtSentinel == parser.pc = "done" /\ parser.capture.span.ptr # "null"

Sentinel(fn) == IF fn = "rept" THEN <<"E", "N", "D", "R">> ELSE <<"E", "N", "D", "M">>

\* C11: a capture that ends at its sentinel returns a span whose size is the
\* number of characters consumed since the capture started minus the four of
\* the ENDR/ENDM keyword; the span is the text up to that keyword, leading
\* whitespace of the keyword's line included, whatever the keyword's letter
\* case, and nothing after the keyword has been consumed.
C11_SpanEndsBeforeSentinel ==
  CapAtSentinel =>
    LET n == Len(hist.shifted) IN
      /\ parser.capture.span.size = n - 4
      /\ hist.shifted = SubSeq(parser.text, 1, n)
      /\ UpperString(SubSeq(parser.text, n - 3, n)) = Sentinel(parser.fn)
      /\ SpanBytes(parser.capture) = SubSeq(parser.text, 1, n - 4)
      /\ Remaining(lexerState) = SubSeq(parser.text, n + 1, Len(parser.text))

\* A macro capture has ended at an indented `endM`, with text left after it.
C11_Witness == CapAtSentinel /\ parser.fn = "macro" /\ parser.capture.span.ptr = "view" /\ SpanBytes(parser.capture) = CapLineX \o <<" ">> /\ Remaining(lexerState) = <<"\n">> \o CapLineX


\* Position p of text starts a physical line.
CapLineStart(text, p) == p = 1 \/ text[p - 1] = "\n" \/ (text[p - 1] = "\r" /\ text[p] # "\n")

\* Position p holds the first character of its line that is not whitespace.
CapFirstOnLine(text, p) == ~isWhitespace(text[p]) /\ \E q \in 1..p : CapLineStart(text, q) /\ \A j \in q..(p - 1) : isWhitespace(text[j])

\* The word that starts at position p: the longest run of identifier characters.
CapWordAt(text, p) == LET ends == {e \in p..Len(text) : \A j \in p..e : continuesIdentifier(text[j])} IN SubSeq(text, p, CHOOSE e \in ends : \A f \in ends : f <= e)

\* The positions where `types` keywords stand as the first word of a line.
CapKeywords(text, types) == {p \in 1..Len(text) : CapFirstOnLine(text, p) /\ startsIdentifier(text[p]) /\ UpperString(CapWordAt(text, p)) \in DOMAIN keywordDict /\ keywordDict[UpperString(CapWordAt(text, p))] \in types}

CapOpens(text) == CapKeywords(text, {"POP_REPT", "POP_FOR"})

CapCloses(text) == CapKeywords(text, {"POP_ENDR"})

Before(S, p) == Cardinality({q \in S : q < p})

\* The first-on-line ENDRs with as many REPT/FOR before them as ENDRs.
CapMatching(text) == {p \in CapCloses(text) : Before(CapOpens(text), p) = Before(CapCloses(text), p)}

\* C12: lexer_CaptureRept ends at the first first-on-line ENDR for which the
\* number of first-on-line REPT/FOR seen since the start equals the number
\* of first-on-line ENDR seen before it (and at the end of input when there
\* is none); every nested REPT/FOR...ENDR pair lies inside the span, and the
\* depth counts first-on-line keywords only, at every line of the capture.
C12_ReptCaptureEndsAtMatchingEndr ==
  LET text == parser.text
      n == Len(hist.shifted)
      match == CapMatching(text)
      first == CHOOSE p \in match : \A q \in match : p <= q
  IN /\ (parser.pc = "rept") => (parser.depth = Before(CapOpens(text), n + 1) - Before(CapCloses(text), n + 1))
     /\ (parser.pc = "done" /\ parser.fn = "rept") =>
          IF match = {} THEN parser.capture.span.ptr = "null"
          ELSE /\ parser.capture.span.ptr # "null"
               /\ n = first + 3
               /\ parser.capture.span.size = first - 1
               /\ \A o \in CapOpens(text) : o < first => \E c \in CapCloses(text) : o < c /\ c < first

\* A capture has ended at the third line's ENDR: the second line's sentinel
\* closed the FOR of the first, whose own line has an ENDR in its middle.
C12_Witness == parser.pc = "done" /\ parser.fn = "rept" /\ parser.text = CapLineFor \o CapLineEndr \o CapLineENDR /\ parser.capture.span.size = Len(CapLineFor \o CapLineEndr) /\ Remaining(lexerState) = <<"\n">>


\* The text holds no sentinel that would end the capture function fn.
CapUnterminated(fn, text) == IF fn = "rept" THEN CapMatching(text) = {} ELSE CapKeywords(text, {"POP_ENDM"}) = {}

Unterminated(fn) == IF fn = "rept" THEN "Unterminated REPT/FOR block" ELSE "Unterminated macro definition"

\* C13: when the end of input is reached during a REPT/FOR or MACRO capture
\* before the sentinel, exactly one "unterminated" error is reported, the
\* returned capture has a null span pointer, and the context is left with
\* capturing false and no capture buffer.
C13_UnterminatedCapture ==
  (parser.pc = "done" /\ CapUnterminated(parser.fn, parser.text)) =>
    /\ diags = <<Unterminated(parser.fn)>>
    /\ parser.capture.span.ptr = "null"
    /\ ~lexerState.capturing
    /\ ~lexerState.hasCaptureBuf
    /\ lexerState.captureBuf = <<>>
    /\ Remaining(lexerState) = <<>>

\* A macro capture ran through a REPT block to the end of input.
C13_Witness == parser.pc = "done" /\ parser.fn = "macro" /\ parser.text = CapLineREPT \o CapLineX \o CapLineENDR /\ Len(hist.shifted) = Len(parser.text) /\ Len(diags) = 1


\* C14: during a capture the recorded bytes are exactly the characters
\* consumed since the capture started, in order. With an owning buffer
\* captureBuf is as long as captureSize says and holds the characters peek
\* returned before each shift; with a zero-copy capture (viewed content, no
\* expansion frame at the start) captureSize is the distance the view's
\* offset has advanced, over those same characters.
C14_CaptureRecordsConsumed ==
  (parser.pc \in {"rept", "macro"}) =>
    /\ lexerState.capturing
    /\ lexerState.captureSize = Len(hist.shifted)
    /\ hist.shifted = SubSeq(parser.text, 1, Len(hist.shifted))
    /\ lexerState.hasCaptureBuf <=> parser.capture.span.ptr = "null"
    /\ lexerState.hasCaptureBuf =>
         /\ Len(lexerState.captureBuf) = lexerState.captureSize
         /\ lexerState.captureBuf = hist.shifted
    /\ ~lexerState.hasCaptureBuf =>
         /\ lexerState.viewed
         /\ lexerState.captureSize = lexerState.offset - parser.viewStart
         /\ hist.shifted = SubSeq(lexerState.content, parser.viewStart + 1, lexerState.offset)

\* A capture that started inside an expansion has gone on into the file: the
\* buffer holds characters of both.
C14_Witness == parser.pc = "rept" /\ lexerState.hasCaptureBuf /\ lexerState.expansions = <<>> /\ lexerState.offset > 0 /\ Len(lexerState.captureBuf) > lexerState.offset


(***************************************************************************)
(* SpecRT: a REPT body is captured and replayed, then the same number of   *)
(* copies of the body is lexed as one source, by the same parser.          *)
(***************************************************************************)
RTLineX == <<"x", " ", "2", "\n">>

RTLines == {LineIF, LineELSE, LineENDC, LineText, LineNested, RTLineX}

RTBodies == {Flatten(ls) : ls \in SeqsUpTo(RTLines, MaxBodyLines)}

\* The whitespace in front of the ENDR that closes the body.
RTIndents == {<<>>, <<" ">>}

RECURSIVE Repeat(_, _)
Repeat(body, n) == IF n = 0 THEN <<>> ELSE body \o Repeat(body, n - 1)

\* The state after the parser has read the `REPT n` line: the body follows.
\* Every condition of the run evaluates to `cond`.
InitRT == /\ \E body \in RTBodies, ind \in RTIndents, n \in 1..MaxReplays, cond \in BOOLEAN :
               /\ lexerState = NewLexerState(body \o ind \o CapLineENDR, 1)
               /\ parser = [pc |-> "capture", n |-> n, cond |-> cond, body |-> body \o ind, capture |-> NoCapture, line |-> <<>>, replayed |-> <<>>, inlined |-> <<>>, replayDiags |-> <<>>]
          /\ lexerStateEOL = NoState
          /\ fstk = NoFstk
          /\ tok = NoToken
          /\ diags = <<>> /\ options = DefaultOptions
          /\ fatal = "none"
          /\ hist = EmptyHist

\* The REPT rule: capture the body and schedule its first replay.
RTCapture == /\ parser.pc = "capture"
             /\ LET m == Call("lexer_CaptureRept", CurrentMachine, <<>>)
                IN /\ Commit(m, "lexer_CaptureRept", Pre)
                   /\ lexerStateEOL' = setViewAsNextState(SpanBytes(m.capture), m.capture.lineNo, [ReptFstk EXCEPT !.iters = parser.n, !.lineNo = m.capture.lineNo])
                   /\ parser' = [parser EXCEPT !.pc = "replay", !.capture = m.capture]
             /\ UNCHANGED <<fstk, tok>>

\* The action the grammar runs for the construct the token completes.
ParserReact(m, todo, cond) == CASE todo = "if" -> ParserIfAct(m, cond) [] todo = "elif" -> ParserElifAct(m, cond) [] todo = "else" -> ParserElseAct(m) [] todo = "endc" -> lexer_DecIFDepth(m) [] todo = "break" -> ParserBreakAct(m) [] OTHER -> m

\* The tokens a comparison of runs looks at: those of the REPT contexts, the
\* end-of-buffer token that ends each context aside.
RTCounts(m) == m.fstk.kind = "rept" /\ m.token.type \notin {"EOB", "YYEOF"}

\* The parser pulls a token and runs the action for it.
RTPull(m, field, nextPc) == LET r == IF Dead(m) THEN m ELSE ParserReact(m, ParserTodo(parser.line, m.token.type), parser.cond) over == Dead(r) \/ m.token.type = "YYEOF" IN
                              /\ Commit(r, "yylex", PreLex)
                              /\ fstk' = r.fstk
                              /\ tok' = m.token
                              /\ lexerStateEOL' = IF SwitchesContext(lexerState, lexerStateEOL) THEN NoState ELSE lexerStateEOL
                              /\ parser' = [parser EXCEPT !.pc = IF over THEN nextPc ELSE @, !.line = ParserLine(@, m.token.type), ![field] = IF RTCounts(m) THEN Append(@, m.token) ELSE @]

RTReplayToken == /\ parser.pc = "replay"
                 /\ RTPull(Call("yylex", CurrentMachine, <<lexerStateEOL>>), "replayed", "replayed")

\* The source with the copies of the body inlined is lexed from its start.
RTStartInline == /\ parser.pc = "replayed"
                 /\ lexerState' = NewLexerState(Repeat(parser.body, parser.n), 1)
                 /\ lexerStateEOL' = NoState
                 /\ fstk' = ReptFstk
                 /\ tok' = NoToken
                 /\ diags' = <<>>
                 /\ fatal' = "none"
                 /\ hist' = EmptyHist
                 /\ parser' = [parser EXCEPT !.pc = "inline", !.line = <<>>, !.replayDiags = diags]
                 /\ UNCHANGED options

RTInlineToken == /\ parser.pc = "inline"
                 /\ RTPull(Call("yylex", CurrentMachine, <<lexerStateEOL>>), "inlined", "end")

NextRT == RTCapture \/ RTReplayToken \/ RTStartInline \/ RTInlineToken

SpecRT == InitRT /\ [][NextRT]_vars

\* No replay of the body ended with an IF construct left open.
RTBalanced == \A i \in 1..Len(parser.replayDiags) : parser.replayDiags[i] # "Ended block with unterminated IF construct"

SameContext == lexerState.content = hist.pre.content /\ Len(fstk.parents) = hist.pre.nparents

\* The tokens after which a line is over, or has not begun.
LineOver == {"NEWLINE", "EOB", "YYEOF"}

\* C16: a scheduled context becomes active only at a yylex call made while
\* the current context is at line start, and the pending slot is cleared at
\* that moment; a call made in the middle of a line takes its token from
\* the current context and leaves the scheduled one pending, so the tokens
\* of one logical line never come from two contexts.
C16_SwitchOnlyAtLineStart ==
  (hist.op = "yylex") =>
    /\ hist.pre.switched => (hist.pre.atLineStart /\ hist.pre.eolPending /\ ~lexerStateEOL.present)
    /\ (hist.pre.eolPending /\ hist.pre.atLineStart) => hist.pre.switched
    /\ ~hist.pre.atLineStart => (SameContext /\ lexerStateEOL.present = hist.pre.eolPending)
    /\ (hist.pre.lastToken \notin LineOver) => (~hist.pre.atLineStart /\ SameContext)

\* A context scheduled after the end-of-line token of `]]` is still pending
\* when the RBRACKS of the same line is handed out.
C16_Witness == hist.op = "yylex" /\ ~hist.pre.atLineStart /\ hist.pre.eolPending /\ lexerStateEOL.present /\ tok.type = "RBRACKS" /\ SameContext


(***************************************************************************)
(* SpecI: the reader of SpecPS over sources with symbol interpolations,    *)
(* outside of any macro.                                                   *)
(***************************************************************************)
IPieces == {<<"{", "s", "}">>, <<"{", "t", "}">>, <<"{", "n", "}">>, <<"{", "u", "}">>, <<"{", "{", "v", "}", "}">>, <<"{", "w", "}">>, <<"{", "y", "}">>, <<"a">>, <<"{">>, <<"}">>}

ISources == {Flatten(ps) : ps \in SeqsUpTo(IPieces, MaxIPieces)}

InitI == /\ \E src \in ISources : lexerState = NewLexerState(src, 0)
         /\ lexerStateEOL = NoState
         /\ fstk = NoFstk
         /\ tok = NoToken
         /\ diags = <<>> /\ options = DefaultOptions
         /\ fatal = "none"
         /\ parser = [pc |-> "idle", c |-> EOF]
         /\ hist = [EmptyHist EXCEPT !.trace = TRUE]

SpecI == InitI /\ [][NextPS]_vars

(***************************************************************************)
(* Properties of interpolation (SpecI).                                    *)
(***************************************************************************)
\* Every `{` of the text has its `}` and the other way round.
RECURSIVE BalancedFrom(_, _, _)
BalancedFrom(text, i, open) == IF i > Len(text) THEN open = 0 ELSE IF text[i] = "{" THEN BalancedFrom(text, i + 1, open + 1) ELSE IF text[i] = "}" THEN open > 0 /\ BalancedFrom(text, i + 1, open - 1) ELSE BalancedFrom(text, i + 1, open)

\* What `{name}` stands for: the string of a string equate, the formatted
\* value of a numeric symbol, nothing for any other name.
SymbolValue(name) == IF name \in DOMAIN Symbols THEN (IF Symbols[name].type = "EQUS" THEN Symbols[name].str ELSE FormatNumber(Symbols[name].num)) ELSE <<>>

\* The text with its interpolations replaced, innermost first, and the
\* replacements read again in their turn; `ok` is FALSE when more than
\* `fuel` replacements are called for.
RECURSIVE Interpolated(_, _)
Interpolated(text, fuel) ==
  IF text = <<>> THEN [ok |-> TRUE, out |-> <<>>]
  ELSE IF Head(text) # "{" THEN LET r == Interpolated(Tail(text), fuel) IN [ok |-> r.ok, out |-> <<Head(text)>> \o r.out]
  ELSE IF fuel = 0 \/ \A j \in 1..Len(text) : text[j] # "}" THEN [ok |-> FALSE, out |-> <<>>]
  ELSE LET j == CHOOSE x \in 1..Len(text) : text[x] = "}" /\ \A y \in 1..(x - 1) : text[y] # "}"
           k == CHOOSE x \in 1..(j - 1) : text[x] = "{" /\ \A y \in (x + 1)..(j - 1) : text[y] # "{"
       IN Interpolated(SubSeq(text, 1, k - 1) \o SymbolValue(SubSeq(text, k + 1, j - 1)) \o SubSeq(text, j + 1, Len(text)), fuel - 1)

\* The characters delivered so far are those of the expanded text, and all
\* of them once the end of the input is reached; a source whose expansion
\* has no end never gets there.
YieldsInterpolated ==
  LET e == Interpolated(lexerState.content, RewriteFuel) IN
    (BalancedFrom(lexerState.content, 1, 0) /\ fatal = "none") =>
      /\ e.ok => IsPrefix(hist.delivered, e.out)
      /\ (parser.pc = "eof") => (e.ok /\ hist.delivered = e.out)

\* A bound on the characters a reading consumes, the introducers and names
\* of interpolations and the characters of their expansions included: the
\* expansions of one character of the input hold three at most, and the
\* expansion stack is a few frames of three characters deep at most.
ShiftBound(text) == 3 * Len(text) + 3 * (maxRecursionDepth + 3)

\* C17: for every input whose braces are balanced, peek and shiftChar
\* terminate and yield the bytes of the input with each interpolation
\* replaced by the expansion of its symbol; a string symbol that names
\* itself ends the reading with a fatal error instead of looping forever:
\* every call answers, and no reading consumes more than ShiftBound allows.
C17_InterpolationTerminates ==
  /\ YieldsInterpolated
  /\ (fatal # "none") => (fatal = "Recursion limit exceeded")
  /\ Len(hist.shifted) <= ShiftBound(lexerState.content)

\* A nested interpolation and a string that holds one were read, then the
\* string that names itself stopped the reading.
C17_Witness == fatal = "Recursion limit exceeded" /\ lexerState.content = <<"{", "{", "v", "}", "}", "{", "w", "}", "{", "t", "}">> /\ hist.delivered = <<"a", "b", "a", "b", "x">>


\* C18: the nesting depth of expansions never exceeds the configured
\* maximum recursion depth: the named expansion that would make the stack
\* deeper is not pushed, the fatal error is raised instead.
C18_DepthWithinLimit == Len(lexerState.expansions) <= maxRecursionDepth

(***************************************************************************)
(* Macro arguments (SpecRaw): a macro name, the rest of its line read in   *)
(* raw mode, and what follows the line.                                    *)
(***************************************************************************)
RawPieces == {<<"a">>, <<" ">>, <<",">>, <<"(">>, <<")">>, <<"\\", ",">>, <<";", "c">>}

RawLines == {Flatten(ps) : ps \in SeqsUpTo(RawPieces, MaxRawPieces)}

RawEndings == {<<>>, <<"\n">>, <<"\r", "\n">>, <<"\n", "x", "\n">>}

\* The macro's name and the blank after it.
MacroCall == <<"x", " ">>

InitRaw == /\ \E line \in RawLines, ending \in RawEndings :
                /\ lexerState = NewLexerState(MacroCall \o line \o ending, 0)
                /\ parser = [pc |-> "name", line |-> line, strings |-> <<>>, after |-> <<>>]
           /\ lexerStateEOL = NoState
           /\ fstk = NoFstk
           /\ tok = NoToken
           /\ diags = <<>> /\ options = DefaultOptions
           /\ fatal = "none"
           /\ hist = EmptyHist

\* The parser pulls a token; what it does next depends on where it is.
RawPull(m, pc, strings, after) == /\ Commit(m, "yylex", PreLex)
                                  /\ fstk' = m.fstk
                                  /\ tok' = m.token
                                  /\ parser' = [parser EXCEPT !.pc = IF Dead(m) \/ m.token.type \in {"YYEOF", "UNMODELLED"} THEN "done" ELSE pc, !.strings = strings, !.after = after]
                                  /\ UNCHANGED lexerStateEOL

\* The first token of the line: the macro's name.
RawName == /\ parser.pc = "name"
           /\ LET m == Call("yylex", CurrentMachine, <<lexerStateEOL>>)
              IN RawPull(m, IF m.token.type = "SYMBOL" THEN "macro" ELSE "done", parser.strings, parser.after)

\* The macro invocation rule: the rest of the line is read in raw mode.
RawEnter == /\ parser.pc = "macro"
            /\ Commit(lexer_SetMode(CurrentMachine, "LEXER_RAW"), "lexer_SetMode", Pre)
            /\ parser' = [parser EXCEPT !.pc = "args"]
            /\ UNCHANGED <<lexerStateEOL, fstk, tok>>

\* The macro's arguments: one STRING each, until the line is over.
RawArg == /\ parser.pc = "args"
          /\ LET m == Call("yylex", CurrentMachine, <<lexerStateEOL>>)
             IN RawPull(m, IF m.token.type = "STRING" THEN "args" ELSE "after", IF m.token.type = "STRING" THEN Append(parser.strings, m.token.value) ELSE parser.strings, parser.after)

\* The tokens after the macro's line.
RawAfter == /\ parser.pc = "after"
            /\ LET m == Call("yylex", CurrentMachine, <<lexerStateEOL>>)
               IN RawPull(m, "after", parser.strings, Append(parser.after, m.token.type))

NextRaw == RawName \/ RawEnter \/ RawArg \/ RawAfter

SpecRaw == InitRaw /\ [][NextRaw]_vars

(***************************************************************************)
(* Properties of raw mode (SpecRaw).                                       *)
(***************************************************************************)
RECURSIVE RawFieldsFrom(_, _, _, _), Stripped(_)

\* A text without the whitespace at its two ends.
Stripped(text) == IF text = <<>> THEN text ELSE IF Head(text) \in {" ", "\t"} THEN Stripped(Tail(text)) ELSE IF text[Len(text)] \in {" ", "\t"} THEN Stripped(SubSeq(text, 1, Len(text) - 1)) ELSE text

\* The fields of a line: what stands between the commas that are neither
\* escaped nor inside parentheses, up to the comment if there is one.
RawFieldsFrom(text, i, cur, depth) == IF i > Len(text) \/ text[i] = ";" THEN <<cur>> ELSE IF text[i] = "\\" /\ i < Len(text) THEN RawFieldsFrom(text, i + 2, Append(cur, text[i + 1]), depth) ELSE IF text[i] = "," /\ depth = 0 THEN <<cur>> \o RawFieldsFrom(text, i + 1, <<>>, 0) ELSE RawFieldsFrom(text, i + 1, Append(cur, text[i]), IF text[i] = "(" THEN depth + 1 ELSE IF text[i] = ")" /\ depth > 0 THEN depth - 1 ELSE depth)

\* The arguments a line stands for: its fields stripped, an empty last one
\* left out.
RawExpected(line) == LET fields == RawFieldsFrom(line, 1, <<>>, 0) stripped == [i \in 1..Len(fields) |-> Stripped(fields[i])] IN IF stripped[Len(stripped)] = <<>> THEN SubSeq(stripped, 1, Len(stripped) - 1) ELSE stripped

\* C19: in raw mode a line of comma-separated fields yields one STRING per
\* field, each the field without its leading and trailing whitespace, an
\* empty last field dropped: one trailing comma adds no argument, two add
\* one empty argument, a blank line yields no STRING.
C19_RawLineYieldsItsFields ==
    /\ parser.pc = "args" => IsPrefix(parser.strings, RawExpected(parser.line))
    /\ parser.pc = "after" \/ (parser.pc = "done" /\ tok.type = "YYEOF") => parser.strings = RawExpected(parser.line)

\* A field, an empty field and a dropped empty last field.
C19_Witness == parser.pc = "after" /\ parser.line = <<"a", ",", ",">> /\ parser.strings = << <<"a">>, <<>> >>

\* The line terminator of the raw line has not been consumed.
RawTerminatorAhead == lexerState.offset <= Len(MacroCall) + Len(parser.line)

\* C20: raw mode returns to normal mode exactly when yylex_RAW returns the
\* end of the line or of the input: a call that returns a STRING leaves
\* the mode raw and the line terminator unconsumed, the call that returns
\* the terminator sets the mode to normal, and the tokens after a raw line
\* are lexed in normal mode.
C20_RawEndsWithLine ==
    /\ hist.op = "yylex" /\ hist.pre.mode = "LEXER_RAW" /\ tok.type = "STRING" => lexerState.mode = "LEXER_RAW" /\ RawTerminatorAhead
    /\ hist.op = "yylex" /\ hist.pre.mode = "LEXER_RAW" /\ tok.type # "STRING" => lexerState.mode = "LEXER_NORMAL" /\ tok.type \in {"NEWLINE", "EOB"} /\ (tok.type = "NEWLINE" => ~RawTerminatorAhead)
    /\ parser.after # <<>> => hist.pre.mode = "LEXER_NORMAL" /\ lexerState.mode = "LEXER_NORMAL"

\* The last argument was returned with the line's end still ahead, the end
\* of the line came next, and the line after it was lexed in normal mode.
C20_Witness == parser.strings = << <<"a">>, <<"a">> >> /\ parser.after = <<"SYMBOL", "NEWLINE">> /\ hist.pre.mode = "LEXER_NORMAL" /\ lexerState.mode = "LEXER_NORMAL"

(***************************************************************************)
(* Literals (SpecTok): a source that starts with a literal is lexed token  *)
(* by token in normal mode.                                                *)
(***************************************************************************)
\* The digits of a literal, by base; 2^32 - 1 is 4294_967295, $FFFFFFFF,
\* &37777777777 and %1...1 with 32 ones.
NumHeads(base) == CASE base = 10 -> {<<>>, <<"4", "2", "9", "4", "_", "9", "6", "7">>} [] base = 16 -> {<<>>, <<"F", "F", "F", "F", "F", "F", "F">>} [] base = 8 -> {<<>>, <<"3", "7", "7", "7", "7", "7", "7", "7", "7", "7">>} [] base = 2 -> {<<>>, <<"1", "1", "1", "1", "1", "1", "1", "1", "1", "1", "1", "1", "1", "1", "1", "1">>, <<"1", "1", "1", "1", "1", "1", "1", "1", "1", "1", "1", "1", "1", "1", "1", "1", "1", "1", "1", "1", "1", "1", "1", "1", "1", "1", "1", "1", "1", "1", "1">>}

NumPieces(base) == CASE base = 10 -> {<<"2", "9">>, <<"5">>, <<"6">>, <<"_">>} [] base = 16 -> {<<"f">>, <<"0">>, <<"1">>, <<"_">>} [] base = 8 -> {<<"7">>, <<"0">>, <<"4">>, <<"_">>} [] base = 2 -> {<<"1">>, <<"0">>, <<"a">>, <<"_">>}

NumPrefixes(base) == CASE base = 10 -> {<<>>} [] base = 16 -> {<<"$">>, <<"0", "x">>} [] base = 8 -> {<<"&">>, <<"0", "O">>} [] base = 2 -> {<<"%">>, <<"0", "b">>}

\* The digit aliases of binary constants: the default, and `-b ab`.
NumOptions(base) == IF base = 2 THEN {DefaultOptions, [DefaultOptions EXCEPT !.binDigits = <<"a", "b">>]} ELSE {DefaultOptions}

NumCases == UNION {{[kind |-> "num", base |-> base, text |-> head \o Flatten(ps), src |-> prefix \o head \o Flatten(ps), options |-> o, fstk |-> NoFstk] : head \in NumHeads(base), ps \in SeqsUpTo(NumPieces(base), MaxNumPieces), prefix \in NumPrefixes(base), o \in NumOptions(base)} : base \in {2, 8, 10, 16}}

\* Fixed-point literals 1.5qP and 1.5q.P, under the default -Q 16 and -Q 8.
PrecDigits == {"0", "1", "2", "3", "5", "6", "7"}

FixCases == {[kind |-> "fix", base |-> 10, text |-> P, src |-> <<"1", ".", "5", "q">> \o dot \o P, options |-> o, fstk |-> NoFstk] : P \in SeqsUpTo(PrecDigits, MaxPrecDigits), dot \in {<<>>, <<".">>}, o \in {DefaultOptions, [DefaultOptions EXCEPT !.fixPrecision = 8]}}

\* String literals, raw (base 1) and ordinary (base 0), closed or not.
StrPieces == {<<"a">>, <<"{", "s", "}">>, <<"{", "n", "}">>, <<"\\", "n">>, <<"\\", "{">>}

StrCases == {[kind |-> IF closed THEN "str" ELSE "open", base |-> IF raw THEN 1 ELSE 0, text |-> Flatten(ps), src |-> (IF raw THEN <<"#", "\"">> ELSE <<"\"">>) \o Flatten(ps) \o (IF closed THEN <<"\"", "\n">> ELSE <<"\n">>), options |-> DefaultOptions, fstk |-> NoFstk] : ps \in SeqsUpTo(StrPieces, MaxStrPieces), raw \in BOOLEAN, closed \in BOOLEAN}

\* The body of a REPT 2 that ends in a block comment, closed or open.
ComPieces == {<<"a">>, <<"\n">>, <<"*">>, <<"/">>}

ComCases == {[kind |-> "com", base |-> 0, text |-> Flatten(ps) \o closer, src |-> <<"a", " ", "/", "*">> \o Flatten(ps) \o closer, options |-> DefaultOptions, fstk |-> [ReptFstk EXCEPT !.iters = 2]] : ps \in SeqsUpTo(ComPieces, MaxComPieces), closer \in {<<>>, <<"*", "/">>}}

TokCases == NumCases \cup FixCases \cup StrCases \cup ComCases

InitTok == /\ \E case \in TokCases :
                /\ lexerState = NewLexerState(case.src, 0)
                /\ options = case.options
                /\ fstk = case.fstk
                /\ parser = [pc |-> "lex", kind |-> case.kind, base |-> case.base, text |-> case.text, tokens |-> <<>>]
           /\ lexerStateEOL = NoState
           /\ tok = NoToken
           /\ diags = <<>>
           /\ fatal = "none"
           /\ hist = EmptyHist

\* The parser pulls the next token.
TokYylex == /\ parser.pc = "lex"
            /\ fatal = "none"
            /\ LET m == Call("yylex", CurrentMachine, <<lexerStateEOL>>)
               IN /\ Commit(m, "yylex", PreLex)
                  /\ fstk' = m.fstk
                  /\ tok' = m.token
                  /\ parser' = [parser EXCEPT !.pc = IF Dead(m) \/ m.token.type \in {"YYEOF", "UNMODELLED"} THEN "done" ELSE "lex", !.tokens = Append(@, m.token.type)]
                  /\ UNCHANGED lexerStateEOL

NextTok == TokYylex

SpecTok == InitTok /\ [][NextTok]_vars

(***************************************************************************)
(* Properties of the literals (SpecTok).                                   *)
(***************************************************************************)
RECURSIVE BigMulAdd(_, _, _), BigValue(_, _, _)

\* limbs * base + carry for a natural number kept as its base-65536 digits,
\* lowest first, without a zero at the top: no width limits it.
BigMulAdd(limbs, base, carry) == IF limbs = <<>> THEN (IF carry = 0 THEN <<>> ELSE <<carry>>) ELSE LET x == Head(limbs) * base + carry IN <<x % 65536>> \o BigMulAdd(Tail(limbs), base, x \div 65536)

\* The value of each character that is a digit of the base, -1 for others.
DigitOf(c, base, opt) == IF base = 2 THEN (IF c = "0" \/ c = opt.binDigits[1] THEN 0 ELSE IF c = "1" \/ c = opt.binDigits[2] THEN 1 ELSE -1) ELSE IF HexDigitVal(c) < base THEN HexDigitVal(c) ELSE -1

\* The true value of a string of digits.
BigValue(digits, base, opt) == IF digits = <<>> THEN <<>> ELSE BigMulAdd(BigValue(SubSeq(digits, 1, Len(digits) - 1), base, opt), base, DigitOf(digits[Len(digits)], base, opt))

WithoutUnderscores(text) == SelectSeq(text, LAMBDA c : c # "_")

\* A digit string: digits of the base with underscores between or after them.
IsDigitString(text, base, opt) == /\ text # <<>>
                                  /\ DigitOf(text[1], base, opt) >= 0
                                  /\ \A i \in 1..Len(text) : text[i] = "_" \/ DigitOf(text[i], base, opt) >= 0

LargeConstantWarned == \E i \in 1..Len(diags) : diags[i] = "warning: Integer constant is too large"

\* The literal of the source has just been lexed.
NumLexed == parser.kind = "num" /\ Len(parser.tokens) = 1 /\ IsDigitString(parser.text, parser.base, options)

RECURSIVE DecimalValue(_)

\* The number a short string of decimal digits writes.
DecimalValue(digits) == IF digits = <<>> THEN 0 ELSE DecimalValue(SubSeq(digits, 1, Len(digits) - 1)) * 10 + DigitVal[digits[Len(digits)]]

PrecisionError == \E i \in 1..Len(diags) : diags[i] \in {"Invalid fixed-point constant, no significant digits after 'q'", "Fixed-point constant precision must be between 1 and 31"}

\* A fixed-point literal with a written precision has just been lexed.
FixLexed == parser.kind = "fix" /\ Len(parser.tokens) = 1 /\ parser.text # <<>>

\* C22: a written precision P of a fixed-point literal is used only if it
\* lies in 1..31; for every other written P, whatever its number of
\* digits, an error is reported and the configured precision is used.
C22_WrittenPrecision ==
    FixLexed => /\ tok.type = "NUMBER"
                /\ IF DecimalValue(parser.text) \in 1..31
                   THEN tok.value.precision = DecimalValue(parser.text) /\ ~PrecisionError
                   ELSE tok.value.precision = options.fixPrecision /\ PrecisionError

(***************************************************************************)
(* Digit aliases (SpecOpt): the options -b and -g, and OPT b / OPT g, set  *)
(* the aliases some number of times.                                       *)
(***************************************************************************)
BinCandidates == [1..2 -> {"0", "1", "a", "b", "_"}]

GfxCandidates == {<<c1, c2, c3, c4>> : c1 \in {"0", "a"}, c2 \in {"a", "1"}, c3 \in {"2", "_"}, c4 \in {"3", "0"}}

InitOpt == /\ lexerState = NewLexerState(<<>>, 0)
           /\ lexerStateEOL = NoState
           /\ fstk = NoFstk
           /\ tok = NoToken
           /\ diags = <<>>
           /\ fatal = "none"
           /\ options = DefaultOptions
           /\ parser = [pc |-> "opt", calls |-> 0, digits |-> <<>>, prev |-> DefaultOptions, ndiags |-> 0]
           /\ hist = EmptyHist

OptCall(m, opName, digits) == /\ options' = m.options
                              /\ diags' = m.diags
                              /\ hist' = [hist EXCEPT !.op = opName]
                              /\ parser' = [parser EXCEPT !.calls = @ + 1, !.digits = digits, !.prev = options, !.ndiags = Len(diags)]
                              /\ UNCHANGED <<lexerState, lexerStateEOL, fstk, tok, fatal>>

SetBinDigits == /\ parser.calls < MaxOptCalls
                /\ \E digits \in BinCandidates : OptCall(lexer_SetBinDigits(CurrentMachine, digits), "lexer_SetBinDigits", digits)

SetGfxDigits == /\ parser.calls < MaxOptCalls
                /\ \E digits \in GfxCandidates : OptCall(lexer_SetGfxDigits(CurrentMachine, digits), "lexer_SetGfxDigits", digits)

NextOpt == SetBinDigits \/ SetGfxDigits

SpecOpt == InitOpt /\ [][NextOpt]_vars

(***************************************************************************)
(* Properties of the digit aliases (SpecOpt).                              *)
(***************************************************************************)
Distinct(digits) == \A i, j \in 1..Len(digits) : i # j => digits[i] # digits[j]

\* The fixed digits of a base with n digits.
FixedDigit(n) == [i \in 1..n |-> CHOOSE d \in Digits : DigitVal[d] = i - 1]

\* What the manual and the specification ask of new aliases.
LegalAliases(digits) == /\ \A i \in 1..Len(digits) : isValidDigit(digits[i])
                        /\ Distinct(digits)
                        /\ \A i, j \in 1..Len(digits) : digits[i] = FixedDigit(Len(digits))[j] => i = j

\* C23: lexer_SetBinDigits and lexer_SetGfxDigits replace the aliases only
\* when every new character is a legal digit character, all are distinct
\* and no fixed digit of the base moves; otherwise an error is reported and
\* the aliases stay as they were. The aliases in force are always pairwise
\* distinct.
C23_DigitAliases ==
    /\ Distinct(options.binDigits) /\ Distinct(options.gfxDigits)
    /\ hist.op \in {"lexer_SetBinDigits", "lexer_SetGfxDigits"} =>
          IF LegalAliases(parser.digits)
          THEN /\ options = IF hist.op = "lexer_SetBinDigits" THEN [parser.prev EXCEPT !.binDigits = parser.digits] ELSE [parser.prev EXCEPT !.gfxDigits = parser.digits]
               /\ Len(diags) = parser.ndiags
          ELSE /\ options = parser.prev
               /\ Len(diags) = parser.ndiags + 1

\* Aliases were set, then a repeated character was refused.
C23_Witness == hist.op = "lexer_SetBinDigits" /\ parser.digits = <<"a", "a">> /\ options.binDigits = <<"b", "a">> /\ diags = <<"Repeated digit">>

RECURSIVE Cooked(_, _), BracesExpanded(_, _)

\* The index of the brace that closes the one at i (the bodies considered
\* do not nest braces).
ClosingBrace(text, i) == CHOOSE j \in (i + 1)..Len(text) : text[j] = "}" /\ \A k \in (i + 1)..(j - 1) : text[k] # "}"

\* What an ordinary string's body stands for: escapes replaced by their
\* character, interpolations by the value of their symbol.
Cooked(text, i) == IF i > Len(text) THEN <<>> ELSE IF text[i] = "\\" THEN <<IF text[i + 1] = "n" THEN "\n" ELSE text[i + 1]>> \o Cooked(text, i + 2) ELSE IF text[i] = "{" THEN SymbolValue(SubSeq(text, i + 1, ClosingBrace(text, i) - 1)) \o Cooked(text, ClosingBrace(text, i) + 1) ELSE <<text[i]>> \o Cooked(text, i + 1)

\* A body with its escapes kept as written and the interpolations that are
\* not escaped replaced by the value of their symbol.
BracesExpanded(text, i) == IF i > Len(text) THEN <<>> ELSE IF text[i] = "\\" THEN <<text[i], text[i + 1]>> \o BracesExpanded(text, i + 2) ELSE IF text[i] = "{" THEN SymbolValue(SubSeq(text, i + 1, ClosingBrace(text, i) - 1)) \o BracesExpanded(text, ClosingBrace(text, i) + 1) ELSE <<text[i]>> \o BracesExpanded(text, i + 1)

\* A closed string literal has just been lexed.
StrLexed == parser.kind = "str" /\ Len(parser.tokens) = 1

\* C24 as claimed: in a raw string backslash escapes are not processed but
\* interpolations are expanded, the payload holding the symbol's value in
\* place of the braces.
C24_RawStringInterpolates == StrLexed /\ parser.base = 1 => tok.type = "STRING" /\ tok.value = BracesExpanded(parser.text, 1)

\* C24 as the code has it: the payload of a raw string is its body as
\* written, backslashes and braces included, and no diagnostic is given;
\* the payload of an ordinary string has its escapes and interpolations
\* replaced.
C24_RawStringVerbatim ==
    /\ StrLexed /\ parser.base = 1 => tok.type = "STRING" /\ tok.value = parser.text /\ diags = <<>>
    /\ StrLexed /\ parser.base = 0 => tok.type = "STRING" /\ tok.value = Cooked(parser.text, 1)

\* A raw string with an interpolation and an escape in it.
C24_Witness == StrLexed /\ parser.base = 1 /\ parser.text = <<"{", "s", "}", "\\", "n">> /\ tok.value = <<"{", "s", "}", "\\", "n">>

\* The text after `/*` holds the `*/` that closes the comment.
HasClose(text) == \E i \in 1..(Len(text) - 1) : text[i] = "*" /\ text[i + 1] = "/"

\* The first `*/` of the text is at its end: nothing follows the comment.
ClosedAtEnd(text) == HasClose(text) /\ ~HasClose(SubSeq(text, 1, Len(text) - 1))

UnterminatedReported == \E i \in 1..Len(diags) : diags[i] = "Unterminated block comment"

BrBodies == {<<"1">>, <<"2">>, <<"3">>, <<"0">>, <<"-", "1">>, <<"-", "2">>, <<"-", "0">>, <<>>, <<"-">>, <<"n">>, <<"z">>, <<"s">>, <<"u">>, <<"#", "n">>, <<"#">>, <<"-", "n">>}

BrClosers == {<<">">>, <<>>, <<")">>}

BrSource(body, closer) == <<"\\", "<">> \o body \o closer \o <<"b">>

InitBr == /\ \E body \in BrBodies, closer \in BrClosers : lexerState = NewLexerState(BrSource(body, closer), 0)
          /\ lexerStateEOL = NoState
          /\ \E f \in {MacroFstk(a) : a \in ArgLists} \cup {NoFstk} : fstk = f
          /\ tok = NoToken
          /\ diags = <<>> /\ options = DefaultOptions
          /\ fatal = "none"
          /\ parser = [pc |-> "idle", c |-> EOF]
          /\ hist = [EmptyHist EXCEPT !.trace = TRUE]

SpecBr == InitBr /\ [][NextPS]_vars

\* The body and the closer the current source was built from.
BrCase == CHOOSE x \in BrBodies \X BrClosers : lexerState.content = BrSource(x[1], x[2])

RECURSIVE BrNumber(_)
BrNumber(ds) == IF ds = <<>> THEN 0 ELSE 10 * BrNumber(SubSeq(ds, 1, Len(ds) - 1)) + DigitOf(ds[Len(ds)], 10, DefaultOptions)

\* The index a body stands for: a decimal number with an optional minus
\* sign, or the value of a numeric symbol (a sign in front of a symbol name
\* is read and dropped); 0 when it stands for none.
BrResolved(body) == LET neg == body # <<>> /\ Head(body) = "-"
                        rest == IF neg THEN Tail(body) ELSE body
                        name == IF rest # <<>> /\ Head(rest) = "#" THEN Tail(rest) ELSE rest
                    IN IF rest # <<>> /\ \A k \in 1..Len(rest) : rest[k] \in Digits THEN (IF neg THEN 0 - BrNumber(rest) ELSE BrNumber(rest))
                       ELSE IF name \in DOMAIN Symbols /\ Symbols[name].type = "NUM" THEN Symbols[name].num
                       ELSE 0

BrValid == BrCase[2] = <<">">> /\ BrResolved(BrCase[1]) >= 1

BufSize == 4

MaxFileLen == 6

MaxEofShifts == 3

FileBytes == <<"a", "b", "c", "d", "e", "f", "g", "h">>

\* What read(fd, ..., nbChars) returns: at most nbChars, at most what is
\* left of the file, and at most `chunk` (a short read); 0 at end of file.
ReadCount(cb, nbChars, chunk) == LET left == Len(cb.content) - cb.fpos
                                     a == IF nbChars < left THEN nbChars ELSE left
                                 IN IF a < chunk THEN a ELSE chunk

\* A slip: the bytes read are stored at the start of the buffer.
BufferedContent_readMoreAtStart(cb, startIndex, nbChars, chunk) == LET n == ReadCount(cb, nbChars, chunk) IN [cb EXCEPT !.buf = [i \in 0..(BufSize - 1) |-> IF i < n THEN cb.content[cb.fpos + i + 1] ELSE cb.buf[i]], !.fpos = @ + n, !.size = @ + n, !.assumed = @ /\ startIndex + nbChars <= BufSize]

\* `assumed` records that the assumption of every readMore so far has held.
BufferedContent_readMore(cb, startIndex, nbChars, chunk) == LET n == ReadCount(cb, nbChars, chunk) IN [cb EXCEPT !.buf = [i \in 0..(BufSize - 1) |-> IF i >= startIndex /\ i < startIndex + n THEN cb.content[cb.fpos + (i - startIndex) + 1] ELSE cb.buf[i]], !.fpos = @ + n, !.size = @ + n, !.assumed = @ /\ startIndex + nbChars <= BufSize]

\* A slip: the refill aims at reading a whole buffer, whatever it holds.
BufferedContent_refillWholeBuffer(cb, chunk) == LET target == BufSize
                                         startIndex == (cb.offset + cb.size) % BufSize
                                         nbExpectedChars == BufSize - startIndex
                                         r == BufferedContent_readMore(cb, startIndex, nbExpectedChars, chunk)
                                         nbReadChars == r.size - cb.size
                                         startIndex2 == IF startIndex + nbReadChars = BufSize THEN 0 ELSE startIndex + nbReadChars
                                         target2 == IF nbReadChars < nbExpectedChars THEN 0 ELSE target - nbReadChars
                                     IN IF startIndex + target > BufSize
                                        THEN (IF target2 # 0 THEN BufferedContent_readMore(r, startIndex2, target2, chunk) ELSE r)
                                        ELSE IF target # 0 THEN BufferedContent_readMore(cb, startIndex, target, chunk) ELSE cb

BufferedContent_refill(cb, chunk) == LET target == BufSize - cb.size
                                         startIndex == (cb.offset + cb.size) % BufSize
                                         nbExpectedChars == BufSize - startIndex
                                         r == BufferedContent_readMore(cb, startIndex, nbExpectedChars, chunk)
                                         nbReadChars == r.size - cb.size
                                         startIndex2 == IF startIndex + nbReadChars = BufSize THEN 0 ELSE startIndex + nbReadChars
                                         target2 == IF nbReadChars < nbExpectedChars THEN 0 ELSE target - nbReadChars
                                     IN IF startIndex + target > BufSize
                                        THEN (IF target2 # 0 THEN BufferedContent_readMore(r, startIndex2, target2, chunk) ELSE r)
                                        ELSE IF target # 0 THEN BufferedContent_readMore(cb, startIndex, target, chunk) ELSE cb

\* A slip: the count of valid bytes is decremented without the test.
BufferedContent_advanceUnguarded(cb) == [cb EXCEPT !.offset = IF @ + 1 = BufSize THEN 0 ELSE @ + 1, !.size = @ - 1]

BufferedContent_advance(cb) == [cb EXCEPT !.offset = IF @ + 1 = BufSize THEN 0 ELSE @ + 1, !.size = IF @ > 0 THEN @ - 1 ELSE @]

\* LexerState::peekChar below the expansions: the content after the peek
\* and the character returned.
ContentPeekChar(cb, chunk) == IF cb.viewed
                              THEN [cb |-> cb, c |-> IF cb.offset < cb.size THEN cb.content[cb.offset + 1] ELSE EOF]
                              ELSE LET r == IF cb.size = 0 THEN BufferedContent_refill(cb, chunk) ELSE cb
                                   IN [cb |-> r, c |-> IF r.size > 0 THEN r.buf[r.offset] ELSE EOF]

\* LexerState::peekCharAhead below the expansions (distance 1).
ContentPeekCharAhead(cb, chunk) == IF cb.viewed
                                   THEN [cb |-> cb, c |-> IF cb.offset + 1 < cb.size THEN cb.content[cb.offset + 2] ELSE EOF]
                                   ELSE LET r == IF cb.size <= 1 THEN BufferedContent_refill(cb, chunk) ELSE cb
                                        IN [cb |-> r, c |-> IF r.size > 1 THEN r.buf[(r.offset + 1) % BufSize] ELSE EOF]

\* shiftChar with no expansion active.
ContentAdvance(cb) == IF cb.viewed THEN [cb EXCEPT !.offset = @ + 1] ELSE BufferedContent_advance(cb)

NewContent(viewed, file) == [viewed |-> viewed, content |-> file, offset |-> 0, size |-> IF viewed THEN Len(file) ELSE 0, buf |-> [i \in 0..(BufSize - 1) |-> "?"], fpos |-> 0, assumed |-> TRUE]

InitSrc == /\ \E viewed \in BOOLEAN, n \in 0..MaxFileLen : lexerState = NewContent(viewed, SubSeq(FileBytes, 1, n))
           /\ lexerStateEOL = NoState
           /\ fstk = NoFstk
           /\ tok = NoToken
           /\ diags = <<>> /\ options = DefaultOptions
           /\ fatal = "none"
           /\ parser = [pc |-> "idle", op |-> "init", c |-> EOF, a |-> EOF, consumed |-> 0, eofShifts |-> 0, pre |-> [offset |-> 0, size |-> 0]]
           /\ hist = EmptyHist

SrcFrame == UNCHANGED <<lexerStateEOL, fstk, tok, diags, fatal, hist, options>>

\* peek: the character at the read position.
SrcPeek == /\ parser.eofShifts <= MaxEofShifts
           /\ \E chunk \in 1..BufSize :
                LET r == ContentPeekChar(lexerState, chunk)
                IN /\ lexerState' = r.cb
                   /\ parser' = [parser EXCEPT !.pc = "peeked", !.op = "peek", !.c = r.c, !.pre = [offset |-> lexerState.offset, size |-> lexerState.size]]
           /\ SrcFrame

\* The one-character lookahead peek takes after a backslash.
SrcPeekAhead == /\ parser.pc = "peeked"
                /\ \E chunk \in 1..BufSize :
                     LET r == ContentPeekCharAhead(lexerState, chunk)
                     IN /\ lexerState' = r.cb
                        /\ parser' = [parser EXCEPT !.op = "ahead", !.a = r.c, !.pre = [offset |-> lexerState.offset, size |-> lexerState.size]]
                /\ SrcFrame

\* shiftChar after a peek, whatever that peek returned (yylex_RAW shifts
\* after a backslash at the end of the input).
SrcShift == /\ parser.pc = "peeked"
            /\ parser.c = EOF => parser.eofShifts < MaxEofShifts
            /\ lexerState' = ContentAdvance(lexerState)
            /\ parser' = [parser EXCEPT !.pc = "idle", !.op = "shift", !.consumed = IF parser.c = EOF THEN @ ELSE @ + 1, !.eofShifts = IF parser.c = EOF THEN @ + 1 ELSE @, !.pre = [offset |-> lexerState.offset, size |-> lexerState.size]]
            /\ SrcFrame

NextSrc == SrcPeek \/ SrcPeekAhead \/ SrcShift

SpecSrc == InitSrc /\ [][NextSrc]_vars

\* The source is exhausted: every byte of the file has been shifted.
Exhausted == parser.consumed = Len(lexerState.content)

\* Every peek returns the next byte of the file, and END once the source is
\* exhausted, however many shifts were issued at the end.
PeekFollowsFile == parser.op = "peek" => parser.c = (IF Exhausted THEN EOF ELSE lexerState.content[parser.consumed + 1])

ShiftAtEnd == parser.op = "shift" /\ parser.c = EOF

\* C27 as stated: once the source is exhausted every peek returns END and a
\* shift changes neither the read offset nor the count of valid bytes.
C27_ShiftAtEndIsNoOp == /\ PeekFollowsFile
                        /\ (ShiftAtEnd => lexerState.offset = parser.pre.offset /\ lexerState.size = parser.pre.size)

\* C27, amended: once the source is exhausted every peek returns END and a
\* shift leaves the count of valid bytes unchanged, but it moves the read
\* offset on by one (past the size of a view, around the ring of a buffer).
C27_ShiftAtEndKeepsEnd == /\ PeekFollowsFile
                          /\ (ShiftAtEnd => /\ lexerState.size = parser.pre.size
                                            /\ lexerState.offset = (IF lexerState.viewed THEN parser.pre.offset + 1 ELSE (parser.pre.offset + 1) % BufSize)
                                            /\ (~lexerState.viewed => lexerState.fpos = Len(lexerState.content)))

\* A buffered file longer than the ring: after two shifts at the end the
\* peek still returns END.
C27_Witness == ~lexerState.viewed /\ Len(lexerState.content) > BufSize /\ parser.eofShifts = 2 /\ parser.op = "peek" /\ parser.c = EOF /\ lexerState.size = 0

(***************************************************************************)
(* The assembler's main from the parse on.  The parser, the file stack,    *)
(* the error counter and the output writers are outside of the lexer: a    *)
(* run of the parser is a sequence of counted errors and of includes that  *)
(* are missing on disk, ended by the return of parse().  `parser` holds    *)
(* the driver's state; `counted` is the number of errors reported, which   *)
(* warnings.nbErrors need not equal after main has forced it to 1.         *)
(***************************************************************************)
MaxCounted == 2

MaxStateFiles == 2

MaxMissing == 2

MainOptions == [missingIncludeState : {"GEN_ERROR", "GEN_EXIT", "GEN_CONTINUE"}, objectFileName : BOOLEAN, stateFileSpecs : 0..MaxStateFiles]

InitMain == /\ lexerState = NoState
            /\ lexerStateEOL = NoState
            /\ fstk = NoFstk
            /\ tok = NoToken
            /\ diags = <<>>
            /\ options \in MainOptions
            /\ fatal = "none"
            /\ parser = [pc |-> "parse", nbErrors |-> 0, counted |-> 0, failedOnMissingInclude |-> FALSE, missing |-> 0, exit |-> -1, objectWritten |-> FALSE, statesWritten |-> 0]
            /\ hist = EmptyHist

MainFrame == UNCHANGED <<lexerState, lexerStateEOL, fstk, tok, diags, fatal, hist, options>>

\* error(): one more counted error.
CountError(st) == [st EXCEPT !.nbErrors = @ + 1, !.counted = @ + 1]

\* requireZeroErrors(): the process exits with a failure status when
\* errors have been counted.
requireZeroErrors(st) == IF st.nbErrors # 0 THEN [st EXCEPT !.pc = "exited", !.exit = 1] ELSE st

\* out_WriteObject(): the object file is written when -o named one.
out_WriteObject(st, opts) == [st EXCEPT !.objectWritten = opts.objectFileName]

\* The loop over stateFileSpecs calling out_WriteState.
out_WriteStates(st, opts) == [st EXCEPT !.statesWritten = opts.stateFileSpecs]

\* A missing include met by fstk_RunInclude, by the -MG setting.
MissingInclude(st, opts) == CASE opts.missingIncludeState = "GEN_EXIT" -> [st EXCEPT !.failedOnMissingInclude = TRUE, !.missing = @ + 1, !.pc = "parsed"]
                              [] opts.missingIncludeState = "GEN_CONTINUE" -> [st EXCEPT !.missing = @ + 1]
                              [] OTHER -> [CountError(st) EXCEPT !.pc = "exited", !.exit = 1]

\* main, the lines after parse() has returned `ret`.
MainAfterParse(st, ret) == [st EXCEPT !.pc = "checks", !.nbErrors = IF ret # 0 /\ @ = 0 THEN 1 ELSE @]

\* A slip: the test that skips the outputs after a missing include is
\* left out.
MainFinishAlwaysWrites(st, opts) == LET r == requireZeroErrors(st) IN IF r.pc = "exited" THEN r ELSE [out_WriteStates(out_WriteObject(r, opts), opts) EXCEPT !.pc = "exited", !.exit = 0]

\* main, from requireZeroErrors() to the final return.
MainFinish(st, opts) == LET r == requireZeroErrors(st) IN IF r.pc = "exited" THEN r ELSE IF r.failedOnMissingInclude THEN [r EXCEPT !.pc = "exited", !.exit = 0] ELSE [out_WriteStates(out_WriteObject(r, opts), opts) EXCEPT !.pc = "exited", !.exit = 0]

\* The parser reports an error and goes on.
ParseError == /\ parser.pc = "parse" /\ parser.counted < MaxCounted
              /\ parser' = CountError(parser)
              /\ MainFrame

\* The parser runs an INCLUDE of a file that does not exist.
ParseMissingInclude == /\ parser.pc = "parse" /\ parser.missing < MaxMissing
                       /\ parser' = MissingInclude(parser, options)
                       /\ MainFrame

\* parse() returns: 0 at the end of the input, non-zero when it aborted.
ParseReturn == /\ parser.pc = "parse"
               /\ \E ret \in {0, 1} : parser' = MainAfterParse(parser, ret)
               /\ MainFrame

\* parse() returns 0 right after the missing include that stopped it.
ParseStopped == /\ parser.pc = "parsed"
                /\ parser' = MainAfterParse(parser, 0)
                /\ MainFrame

\* The end-of-assembly checks, skipped after a missing include; each may
\* report errors.
MainChecks == /\ parser.pc = "checks"
              /\ \E found \in BOOLEAN : parser' = [(IF found /\ ~parser.failedOnMissingInclude /\ parser.counted < MaxCounted + 1 THEN CountError(parser) ELSE parser) EXCEPT !.pc = "finish"]
              /\ MainFrame

MainExit == /\ parser.pc = "finish"
            /\ parser' = MainFinish(parser, options)
            /\ MainFrame

NextMain == ParseError \/ ParseMissingInclude \/ ParseReturn \/ ParseStopped \/ MainChecks \/ MainExit

SpecMain == InitMain /\ [][NextMain]_vars

\* C28: a run that stopped on a missing include under -MG with no error
\* counted exits with code 0 and writes neither the object file nor a
\* state file; a run in which an error was counted exits with a non-zero
\* code and writes no object file.
C28_ExitAndOutputs == parser.pc = "exited" =>
                        /\ (parser.failedOnMissingInclude /\ parser.counted = 0 => parser.exit = 0 /\ ~parser.objectWritten /\ parser.statesWritten = 0)
                        /\ (parser.counted > 0 => parser.exit # 0 /\ ~parser.objectWritten)

\* -MG with -o and a state file requested: the run stopped on the missing
\* include and left with code 0 and no output.
C28_Witness == parser.pc = "exited" /\ options.missingIncludeState = "GEN_EXIT" /\ options.objectFileName /\ options.stateFileSpecs > 0 /\ parser.failedOnMissingInclude /\ parser.counted = 0 /\ parser.exit = 0 /\ ~parser.objectWritten

(***************************************************************************)
(* The graphics converter's ColorSet: four slots, sorted, UINT16_MAX in    *)
(* the empty ones.  `parser` holds the set, the set before the last add    *)
(* and the colour that was added.                                          *)
(***************************************************************************)
MaxColor == 7

UINT16_MAX == 65535

capacity == 4

EmptyColorSet == [i \in 0..(capacity - 1) |-> UINT16_MAX]

\* The first loop of ColorSet::add: the first slot that is not below the
\* colour, or `capacity` when every slot is below it.
RECURSIVE ColorSeek(_, _, _)
ColorSeek(colorIndices, i, color) == IF colorIndices[i] < color THEN (IF i + 1 = capacity THEN capacity ELSE ColorSeek(colorIndices, i + 1, color)) ELSE i

\* The second loop: the colour in hand is swapped with slot after slot up
\* to the first empty one, which takes the colour left in hand.
RECURSIVE ColorSwap(_, _, _)
ColorSwap(colorIndices, i, color) == IF colorIndices[i] # UINT16_MAX THEN (IF i + 1 = capacity THEN [colorIndices EXCEPT ![i] = color] ELSE ColorSwap([colorIndices EXCEPT ![i] = color], i + 1, colorIndices[i])) ELSE [colorIndices EXCEPT ![i] = color]

ColorSet_add(colorIndices, color) == LET i == ColorSeek(colorIndices, 0, color) IN IF i = capacity THEN colorIndices ELSE IF colorIndices[i] = color THEN colorIndices ELSE ColorSwap(colorIndices, i, color)

InitColors == /\ lexerState = NoState
              /\ lexerStateEOL = NoState
              /\ fstk = NoFstk
              /\ tok = NoToken
              /\ diags = <<>> /\ options = DefaultOptions
              /\ fatal = "none"
              /\ parser = [colors |-> EmptyColorSet, prev |-> EmptyColorSet, color |-> 0, op |-> "init"]
              /\ hist = EmptyHist

AddColor == /\ parser.op \in {"init", "add"}
            /\ \E color \in 0..MaxColor : parser' = [colors |-> ColorSet_add(parser.colors, color), prev |-> parser.colors, color |-> color, op |-> "add"]
            /\ UNCHANGED <<lexerState, lexerStateEOL, fstk, tok, diags, fatal, hist, options>>

NextColors == AddColor

SpecColors == InitColors /\ [][NextColors]_vars

ColorsOf(colorIndices) == {colorIndices[i] : i \in 0..(capacity - 1)} \ {UINT16_MAX}

\* C29: ColorSet::add on a set that holds its 4 colours and does not
\* contain the new colour leaves the set unchanged.
C29_FullSetDropsNewColor == parser.op = "add" /\ Cardinality(ColorsOf(parser.prev)) = capacity /\ parser.color \notin ColorsOf(parser.prev) => parser.colors = parser.prev

(***************************************************************************)
(* The source formatter.  Formatter::format runs one line of the input per *)
(* step; `parser` holds its locals: the input, the read position, the      *)
(* indentation level, the count of blank lines just kept, the lines        *)
(* emitted so far and, at the end, the output.                             *)
(***************************************************************************)
MaxFmtLines == 3

MaxBlankLimit == 1

npos == -1

isSpace(c) == c = " " \/ c = "\t"

RECURSIVE rtrimInPlace(_)
rtrimInPlace(text) == IF text # <<>> /\ isSpace(text[Len(text)]) THEN rtrimInPlace(SubSeq(text, 1, Len(text) - 1)) ELSE text

RECURSIVE ltrim(_)
ltrim(text) == IF text # <<>> /\ isSpace(Head(text)) THEN ltrim(Tail(text)) ELSE text

makeIndent(depth, config) == IF depth = 0 THEN <<>> ELSE IF config.useTabs THEN [k \in 1..depth |-> "\t"] ELSE [k \in 1..(depth * config.indentWidth) |-> " "]

isLabelStart(c) == c \in UpperLetters \cup LowerLetters \cup {"_", ".", "@", "?", "$"}

isLabelChar(c) == isLabelStart(c) \/ c \in Digits

\* The length of the longest prefix of `text` from index idx (0-based) on
\* whose characters all satisfy the test of the loop that scans it.
RECURSIVE ScanWhile(_, _, _)
ScanWhile(text, idx, kind) == IF idx < Len(text) /\ (CASE kind = "sign" -> text[idx + 1] \in {"+", "-"} [] kind = "label" -> isLabelChar(text[idx + 1]) [] OTHER -> ~isSpace(text[idx + 1])) THEN ScanWhile(text, idx + 1, kind) ELSE idx

splitLabel(code) == IF code = <<>> THEN [label |-> <<>>, body |-> <<>>]
                    ELSE IF code[1] = ":" THEN (LET idx == ScanWhile(code, 1, "sign") IN [label |-> SubSeq(code, 1, idx), body |-> ltrim(SubSeq(code, idx + 1, Len(code)))])
                    ELSE IF ~isLabelStart(code[1]) THEN [label |-> <<>>, body |-> code]
                    ELSE LET idx == ScanWhile(code, 1, "label")
                             idx2 == IF idx + 1 < Len(code) /\ code[idx + 2] = ":" THEN idx + 2 ELSE idx + 1
                         IN IF idx >= Len(code) \/ code[idx + 1] # ":" THEN [label |-> <<>>, body |-> code]
                            ELSE [label |-> SubSeq(code, 1, idx2), body |-> ltrim(SubSeq(code, idx2 + 1, Len(code)))]

\* findComment from index i (0-based) on.
RECURSIVE FindCommentFrom(_, _, _, _)
FindCommentFrom(line, i, inSingle, inDouble) == IF i >= Len(line) THEN npos
                                                ELSE LET c == line[i + 1]
                                                     IN IF c = "\\" THEN FindCommentFrom(line, i + 2, inSingle, inDouble)
                                                        ELSE IF c = "\"" /\ ~inSingle THEN FindCommentFrom(line, i + 1, inSingle, ~inDouble)
                                                        ELSE IF c = "'" /\ ~inDouble THEN FindCommentFrom(line, i + 1, ~inSingle, inDouble)
                                                        ELSE IF c = ";" /\ ~inSingle /\ ~inDouble THEN i
                                                        ELSE FindCommentFrom(line, i + 1, inSingle, inDouble)

findComment(line) == FindCommentFrom(line, 0, FALSE, FALSE)

uppercase(token) == UpperString(token)

firstToken(text) == LET t == ltrim(text) IN SubSeq(t, 1, ScanWhile(t, 0, "token"))

Dedenting == {<<"E", "N", "D", "M">>, <<"E", "N", "D", "C">>, <<"E", "N", "D", "R">>, <<"E", "N", "D", "L">>, <<"E", "N", "D", "U">>}

Reindenting == {<<"E", "L", "S", "E">>, <<"E", "L", "I", "F">>, <<"N", "E", "X", "T", "U">>}

Indenting == {<<"M", "A", "C", "R", "O">>, <<"R", "E", "P", "T">>, <<"F", "O", "R">>, <<"I", "F">>, <<"I", "F", "D", "E", "F">>, <<"I", "F", "N", "D", "E", "F">>, <<"U", "N", "I", "O", "N">>, <<"L", "O", "A", "D">>}

Suppressing == {<<"S", "E", "C", "T", "I", "O", "N">>, <<"E", "N", "D", "S", "E", "C", "T", "I", "O", "N">>}

\* input.find('\n', pos): the 0-based index of the next newline, or npos.
FindNewline(input, pos) == LET at == {k \in (pos + 1)..Len(input) : input[k] = "\n"} IN IF at = {} THEN npos ELSE (CHOOSE k \in at : \A j \in at : k <= j) - 1

\* A slip: every blank line of the input is kept.
FormatBlankKeepsAll(st, config, nextPos, hasNewline) == [st EXCEPT !.blankCount = @ + 1, !.formatted = Append(@, <<>>), !.pos = nextPos, !.pc = IF hasNewline THEN "loop" ELSE "after"]

\* The branch of the loop for a line with neither code nor comment.
FormatBlank(st, config, nextPos, hasNewline) == LET keep == config.maxConsecutiveBlankLines # 0 /\ st.blankCount < config.maxConsecutiveBlankLines IN [st EXCEPT !.blankCount = IF keep THEN @ + 1 ELSE @, !.formatted = IF keep THEN Append(@, <<>>) ELSE @, !.pos = nextPos, !.pc = IF hasNewline THEN "loop" ELSE "after"]

\* The rest of the loop body, for a line with code or a comment.
FormatCode(st, config, codeView, comment0, nextPos, hasNewline) ==
    LET split0 == splitLabel(codeView)
        split == IF config.trimTrailingWhitespace /\ split0.body # <<>> THEN [split0 EXCEPT !.body = rtrimInPlace(@)] ELSE split0
        hasComment == comment0 # <<>>
        hasLabel == split.label # <<>>
        hasBody == split.body # <<>>
        token == uppercase(firstToken(split.body))
        reindentAfter == token \in Reindenting
        dedentNow == token \in Dedenting \/ reindentAfter
        suppressBaseIndent == ~hasLabel /\ st.indentLevel = 0 /\ token \in Suppressing
        indentLevel == IF dedentNow /\ st.indentLevel > 0 THEN st.indentLevel - 1 ELSE st.indentLevel
        commentOnly == ~hasBody /\ hasComment
        indentDepth == IF (hasBody \/ commentOnly) /\ ~suppressBaseIndent THEN indentLevel + config.baseIndent ELSE indentLevel
        indent == makeIndent(indentDepth, config)
        comment == IF config.trimTrailingWhitespace THEN rtrimInPlace(comment0) ELSE comment0
        line1 == IF hasLabel THEN split.label \o (IF hasBody THEN indent \o split.body ELSE IF commentOnly /\ indent # <<>> THEN indent ELSE <<>>)
                 ELSE IF hasBody THEN indent \o split.body ELSE IF commentOnly THEN indent ELSE <<>>
        line == IF hasComment THEN (IF line1 # <<>> /\ ~isSpace(line1[Len(line1)]) THEN Append(line1, " ") ELSE line1) \o comment ELSE line1
    IN [st EXCEPT !.blankCount = 0, !.formatted = Append(@, line), !.indentLevel = IF token \in Indenting \/ reindentAfter THEN indentLevel + 1 ELSE indentLevel, !.pos = nextPos, !.pc = IF hasNewline THEN "loop" ELSE "after"]

\* One iteration of the loop of Formatter::format.
FormatIteration(st, config) ==
    LET input == st.input
        next == FindNewline(input, st.pos)
        hasNewline == next # npos
        len == IF hasNewline THEN next - st.pos ELSE Len(input) - st.pos
        raw0 == SubSeq(input, st.pos + 1, st.pos + len)
        raw1 == IF raw0 # <<>> /\ raw0[Len(raw0)] = "\r" THEN SubSeq(raw0, 1, Len(raw0) - 1) ELSE raw0
        raw == IF config.trimTrailingWhitespace THEN rtrimInPlace(raw1) ELSE raw1
        commentPos == findComment(raw)
        comment == IF commentPos # npos THEN SubSeq(raw, commentPos + 1, Len(raw)) ELSE <<>>
        code0 == IF commentPos # npos THEN SubSeq(raw, 1, commentPos) ELSE raw
        code == IF config.trimTrailingWhitespace THEN rtrimInPlace(code0) ELSE code0
        codeView == ltrim(code)
        nextPos == IF hasNewline THEN next + 1 ELSE Len(input)
    IN IF st.pos > Len(input) THEN [st EXCEPT !.pc = "after"]
       ELSE IF ~hasNewline /\ st.pos = Len(input) THEN [st EXCEPT !.pc = "after"]
       ELSE IF codeView = <<>> /\ comment = <<>> THEN FormatBlank(st, config, nextPos, hasNewline)
       ELSE FormatCode(st, config, codeView, comment, nextPos, hasNewline)

RECURSIVE PopBlank(_)
PopBlank(formatted) == IF formatted # <<>> /\ formatted[Len(formatted)] = <<>> THEN PopBlank(SubSeq(formatted, 1, Len(formatted) - 1)) ELSE formatted

RECURSIVE JoinLines(_)
JoinLines(formatted) == IF formatted = <<>> THEN <<>> ELSE Head(formatted) \o <<"\n">> \o JoinLines(Tail(formatted))

\* Formatter::format after the loop: trailing empty lines are dropped and
\* every line left is written with a newline.
FormatOutput(st) == LET kept == PopBlank(st.formatted) IN [st EXCEPT !.pc = "done", !.formatted = kept, !.output = JoinLines(kept)]

FmtLines == {<<>>, <<" ">>, <<"\r">>, <<"a">>, <<";", "c", " ">>, <<"a", ":", " ">>, <<"i", "f">>}

RECURSIVE JoinInput(_)
JoinInput(lines) == IF lines = <<>> THEN <<>> ELSE IF Len(lines) = 1 THEN lines[1] ELSE Head(lines) \o <<"\n">> \o JoinInput(Tail(lines))

FmtInputs == {JoinInput(ls) : ls \in SeqsUpTo(FmtLines, MaxFmtLines)}

FormatterConfigs == [useTabs : {TRUE}, indentWidth : {4}, baseIndent : {1}, maxConsecutiveBlankLines : 0..MaxBlankLimit, trimTrailingWhitespace : BOOLEAN]

InitFmt == /\ lexerState = NoState
           /\ lexerStateEOL = NoState
           /\ fstk = NoFstk
           /\ tok = NoToken
           /\ diags = <<>>
           /\ options \in FormatterConfigs
           /\ fatal = "none"
           /\ \E input \in FmtInputs : parser = [pc |-> "loop", input |-> input, pos |-> 0, indentLevel |-> 0, blankCount |-> 0, formatted |-> <<>>, output |-> <<>>]
           /\ hist = EmptyHist

FmtFrame == UNCHANGED <<lexerState, lexerStateEOL, fstk, tok, diags, fatal, hist, options>>

FormatLine == /\ parser.pc = "loop"
              /\ parser' = FormatIteration(parser, options)
              /\ FmtFrame

FormatEnd == /\ parser.pc = "after"
             /\ parser' = FormatOutput(parser)
             /\ FmtFrame

NextFmt == FormatLine \/ FormatEnd

SpecFmt == InitFmt /\ [][NextFmt]_vars

\* The lines of a text: the pieces between its newlines (the piece after
\* the last newline included).
RECURSIVE LinesOf(_, _)
LinesOf(text, cur) == IF text = <<>> THEN <<cur>> ELSE IF Head(text) = "\n" THEN <<cur>> \o LinesOf(Tail(text), <<>>) ELSE LinesOf(Tail(text), Append(cur, Head(text)))

BlankLine(line) == \A k \in 1..Len(line) : line[k] \in {" ", "\t"}

\* The lines of the output, each ended by a newline.
OutputLines == LET ls == LinesOf(parser.output, <<>>) IN SubSeq(ls, 1, Len(ls) - 1)

\* C30: the output never has more than maxConsecutiveBlankLines blank lines
\* in a row (none at all when the limit is 0), never ends with a blank
\* line, and ends with a newline unless it is empty.
C30_BlankLinesBounded == parser.pc = "done" =>
                           /\ (parser.output # <<>> => parser.output[Len(parser.output)] = "\n")
                           /\ (OutputLines # <<>> => ~BlankLine(OutputLines[Len(OutputLines)]))
                           /\ \A i \in 1..Len(OutputLines) : \E j \in i..(i + options.maxConsecutiveBlankLines) : j > Len(OutputLines) \/ ~BlankLine(OutputLines[j])

\* Limit 1, untrimmed: of an empty line and a line of one space before a
\* statement, one blank line is kept.
C30_Witness == parser.pc = "done" /\ options.maxConsecutiveBlankLines = 1 /\ ~options.trimTrailingWhitespace /\ parser.input = <<"\n", " ", "\n", "a">> /\ parser.output = <<"\n", "\t", "a", "\n">>

(***************************************************************************)
(* The expansion stack under peek and shiftChar.                           *)
(***************************************************************************)
FramesWithinBounds == \A i \in 1..Len(lexerState.expansions) : lexerState.expansions[i].contents # <<>> /\ lexerState.expansions[i].offset <= Len(lexerState.expansions[i].contents)

\* The frames left once every front frame whose offset an advance would
\* take past its end has been popped.
RECURSIVE DropExhausted(_)
DropExhausted(exps) == IF exps # <<>> /\ Head(exps).offset + 1 > Len(Head(exps).contents) THEN DropExhausted(Tail(exps)) ELSE exps

\* A step that is one shiftChar: the exhausted front frames are popped and
\* the first frame left, or the file when none is left, advances by one.
ShiftPopsExhausted == hist'.op = "shift" =>
                        LET rest == DropExhausted(lexerState.expansions)
                        IN IF rest # <<>>
                           THEN lexerState'.expansions = [rest EXCEPT ![1].offset = @ + 1] /\ lexerState'.offset = lexerState.offset
                           ELSE lexerState'.expansions = <<>> /\ lexerState'.offset = lexerState.offset + 1

\* C31: between lexer operations every expansion frame has non-empty
\* contents and an offset within them; shiftChar pops the front frame
\* exactly when advancing it would take its offset past the end, and in the
\* same shift advances the next frame or the file.
C31_ExpansionFrames == [](FramesWithinBounds) /\ [][ShiftPopsExhausted]_vars

\* A shift that found one frame, read to its end, popped it and advanced
\* the file.
C31_Witness == hist.op = "shift" /\ hist.pre.nexp = 1 /\ lexerState.expansions = <<>> /\ lexerState.offset = hist.pre.offset + 1 /\ hist.substs # <<>>

\* C32: no shift, in any mode and inside any lexer function, finds
\* macroArgScanDistance at zero, so that the decrement by one that every
\* shift makes never takes the counter below zero.
C32_ScanDistanceNotBelowZero == lexerState.macroArgScanDistance >= 0 /\ ~hist.scanBelowZero

\* A token read by shifts that brought the counter down to zero.
C32_Witness == tok.type = "NEWLINE" /\ lexerState.macroArgScanDistance = 0 /\ lexerState.offset > 0 /\ lexerState.mode = "LEXER_NORMAL"

(***************************************************************************)
(* String literals with escapes, macro arguments, interpolation and line   *)
(* continuations, at top level and inside a macro.                         *)
(***************************************************************************)
MaxLitPieces == 3

LitPieces == {<<"a">>, <<"{", "s", "}">>, <<"{", "y", "}">>, <<"\\", "1">>, <<"\\", "<", "1", ">">>, <<"\\", "\n">>, <<"\\", " ", ";", "c", "\n">>}

LitCases == {[text |-> Flatten(ps), src |-> <<"\"">> \o Flatten(ps) \o <<"\"", "\n">>, fstk |-> f] : ps \in SeqsUpTo(LitPieces, MaxLitPieces), f \in {NoFstk, MacroFstk(<< <<"a">>, <<"b">> >>)}}

InitLit == /\ \E case \in LitCases :
                /\ lexerState = NewLexerState(case.src, 0)
                /\ fstk = case.fstk
                /\ parser = [pc |-> "lex", kind |-> "str", base |-> 0, text |-> case.text, tokens |-> <<>>]
           /\ options = DefaultOptions
           /\ lexerStateEOL = NoState
           /\ tok = NoToken
           /\ diags = <<>>
           /\ fatal = "none"
           /\ hist = EmptyHist

SpecLit == InitLit /\ [][NextTok]_vars

\* C33: at every peek made inside a string literal, outside the body of an
\* interpolation, macro arguments and interpolation are both disabled.
C33_LiteralPeeksSuppressed == hist.litPeeks = {}

(***************************************************************************)
(* Lines with multi-line strings, written in the file or held by the       *)
(* string symbol q.                                                        *)
(***************************************************************************)
MaxLnPieces == 3

LnPieces == {<<"{", "q", "}">>, <<"\"", "\"", "\"", "\n", "\"", "\"", "\"">>, <<"{", "s", "}">>, <<" ">>, <<"\n">>, <<"/", "*", "\n", "*", "/">>}

InitLn == /\ \E ps \in SeqsUpTo(LnPieces, MaxLnPieces) :
               /\ lexerState = NewLexerState(Flatten(ps) \o <<"\n">>, 0)
               /\ parser = [pc |-> "lex", kind |-> "ln", base |-> 0, text |-> Flatten(ps), tokens |-> <<>>]
          /\ fstk = NoFstk
          /\ options = DefaultOptions
          /\ lexerStateEOL = NoState
          /\ tok = NoToken
          /\ diags = <<>>
          /\ fatal = "none"
          /\ hist = EmptyHist

SpecLn == InitLn /\ [][NextTok]_vars

\* C34: lineNo is never incremented while an expansion frame is active.
C34_NoLineCountedInExpansion == ~hist.lineInExp

\* C35: a peek that follows a peek, with no shift in between, returns the
\* same character and leaves the lexer state and the diagnostics unchanged.
PeekAfterPeek == (hist.op = "peek" /\ hist'.op = "peek") => (parser'.c = parser.c /\ lexerState' = lexerState /\ diags' = diags /\ fatal' = fatal)

C35_PeekIdempotent == [][PeekAfterPeek]_vars

\* A second peek of the first character of a macro argument that the first
\* peek has substituted.
C35_Witness == hist.op = "peek" /\ Len(hist.substs) = 1 /\ hist.substs[1].start = 0 /\ hist.substs[1].at = Len(hist.shifted) /\ hist.pre.nexp = 1 /\ Len(lexerState.expansions) = 1

(***************************************************************************)
(* Backslashes in the file, in macro arguments and in the string symbol k, *)
(* read character by character inside and outside a macro.                 *)
(***************************************************************************)
MaxAheadPieces == 3

AheadPieces == {<<"{", "k", "}">>, <<"{", "s", "}">>, <<"\\", "1">>, <<"\\", "2">>, <<"\\">>, <<"a">>}

InitAhead == /\ \E ps \in SeqsUpTo(AheadPieces, MaxAheadPieces) : lexerState = NewLexerState(Flatten(ps), 0)
             /\ \E f \in {MacroFstk(a) : a \in ArgLists} \cup {NoFstk} : fstk = f
             /\ lexerStateEOL = NoState
             /\ tok = NoToken
             /\ diags = <<>>
             /\ options = DefaultOptions
             /\ fatal = "none"
             /\ parser = [pc |-> "idle", c |-> EOF]
             /\ hist = [EmptyHist EXCEPT !.trace = TRUE]

SpecAhead == InitAhead /\ [][NextPS]_vars

AheadIsNextChar == LexerState_peekCharAhead(lexerState) = LexerState_peekChar(AdvanceLoop(CurrentMachine).ls)

AheadFollowsPeek == parser.op = "ahead" => parser.a = (IF parser.consumed + 1 < Len(lexerState.content) THEN lexerState.content[parser.consumed + 2] ELSE EOF)

\* C37: the bytes obtained by peekChar and advance are the bytes of the file,
\* in order, for every pattern of short reads, and peekCharAhead returns the
\* byte that follows the one peekChar returns.
C37_BufferDeliversFile == PeekFollowsFile /\ AheadFollowsPeek

\* A lookahead at the last slot of the ring, answered from its first slot.
C37_Witness == ~lexerState.viewed /\ parser.op = "ahead" /\ lexerState.offset = BufSize - 1 /\ parser.consumed = BufSize - 1 /\ Len(lexerState.content) > BufSize /\ parser.a = lexerState.content[BufSize + 1]

\* The unread bytes of the ring are the bytes of the file before the
\* position of the file descriptor.
RingHoldsUnread == \A k \in 0..(lexerState.size - 1) : lexerState.buf[(lexerState.offset + k) % BufSize] = lexerState.content[lexerState.fpos - lexerState.size + k + 1]

\* C38: the offset is below the capacity, the count of valid bytes is at
\* most the capacity, the assumption of readMore never fails, and no refill
\* writes over an unread byte.
C38_BufferWithinCapacity == ~lexerState.viewed => (lexerState.offset \in 0..(BufSize - 1) /\ lexerState.size \in 0..BufSize /\ lexerState.assumed /\ RingHoldsUnread)

\* A full ring whose unread bytes wrap around its end.
C38_Witness == ~lexerState.viewed /\ lexerState.size = BufSize /\ lexerState.offset > 0 /\ lexerState.fpos > BufSize /\ parser.op = "ahead"

(***************************************************************************)
(* What skip-to-endr mode is expected to do with the rest of a context,    *)
(* computed from the text alone.                                           *)
(***************************************************************************)
RECURSIVE EscapedAt(_, _), SkipBlanks(_, _), WordFrom(_, _), ExpectedIfDepth(_, _, _, _)
\* The character at index j follows a backslash that is not itself escaped.
EscapedAt(text, j) == j > 1 /\ text[j - 1] = "\\" /\ ~EscapedAt(text, j - 1)

SkipBlanks(text, p) == IF p <= Len(text) /\ text[p] \in {" ", "\t"} THEN SkipBlanks(text, p + 1) ELSE p

WordFrom(text, q) == IF q <= Len(text) /\ continuesIdentifier(text[q]) THEN <<text[q]>> \o WordFrom(text, q + 1) ELSE <<>>

\* The first word of the line that starts at index p, in upper case.
LineKeyword(text, p) == LET q == SkipBlanks(text, p) IN IF q <= Len(text) /\ startsIdentifier(text[q]) THEN UpperString(WordFrom(text, q)) ELSE <<>>

\* The depth of the IF stack after the lines of `text` from index p on, -1
\* if an ENDC is met at depth 0.
ExpectedIfDepth(text, p, atStart, depth) == IF p > Len(text) THEN depth ELSE LET lineStart == (p = 1 /\ atStart) \/ (p > 1 /\ text[p - 1] = "\n" /\ ~EscapedAt(text, p - 1)) w == IF lineStart THEN LineKeyword(text, p) ELSE <<>> IN IF w = <<"I", "F">> THEN ExpectedIfDepth(text, p + 1, atStart, depth + 1) ELSE IF w = <<"E", "N", "D", "C">> THEN (IF depth = 0 THEN 0 - 1 ELSE ExpectedIfDepth(text, p + 1, atStart, depth - 1)) ELSE ExpectedIfDepth(text, p + 1, atStart, depth)

SkipEndrRan == hist.op = "yylex" /\ hist.skipped /\ hist.skipInfo.fn = "yylex_SKIP_TO_ENDR"

SkippedText == SubSeq(lexerState.content, hist.skipInfo.offset + 1, Len(lexerState.content))

\* C39: skip-to-endr mode ends with the end-of-file token only (or with the
\* fatal error of an ENDC that has no IF): it consumes the rest of the
\* context, leaves the IF stack at the depth the first-on-line IF and ENDC
\* of the skipped lines give, expands nothing, and leaves the mode normal.
C39_SkipToEndrReadsToEnd ==
    SkipEndrRan =>
        LET expected == ExpectedIfDepth(SkippedText, 1, hist.skipInfo.atLineStart, hist.skipInfo.depth)
        IN IF expected < 0
           THEN fatal # "none"
           ELSE /\ fatal = "none"
                /\ tok.type = "EOB"
                /\ lexerState.offset >= Len(lexerState.content)
                /\ FirstLiveExpansion(lexerState) = 0
                /\ Len(lexerState.ifStack) = expected
                /\ ~hist.expGrew
                /\ Len(lexerState.expansions) <= hist.skipInfo.nexp
                /\ lexerState.mode = "LEXER_NORMAL"

\* A skip that passed an IF and its ENDC, both first on their lines.
C39_Witness == SkipEndrRan /\ tok.type = "EOB" /\ Len(hist.kwlog) = 2 /\ hist.kwlog[1].effect = "push" /\ hist.kwlog[2].effect = "pop" /\ Len(lexerState.ifStack) = hist.skipInfo.depth

(***************************************************************************)
(* rgbgfx: ColorSet::compare on two sets, each built by a sequence of add. *)
(* `parser` holds the two sets and the result of the last compare.         *)
(***************************************************************************)
MaxCmpColor == 5

\* ColorSet::end: the index of the first empty slot, `capacity` if none.
RECURSIVE ColorEnd(_, _)
ColorEnd(colorIndices, i) == IF i = capacity THEN capacity ELSE IF colorIndices[i] = UINT16_MAX THEN i ELSE ColorEnd(colorIndices, i + 1)

\* The loop of ColorSet::compare and what follows it.
RECURSIVE CompareLoop(_, _, _, _, _, _)
\* A slip: the colours one set has left after the loop are not looked at.
CompareLoopNoTail(ours, theirs, i, j, weBigger, theyBigger) == IF i # ColorEnd(ours, 0) /\ j # ColorEnd(theirs, 0) THEN (IF ours[i] = theirs[j] THEN CompareLoop(ours, theirs, i + 1, j + 1, weBigger, theyBigger) ELSE IF ours[i] < theirs[j] THEN CompareLoop(ours, theirs, i + 1, j, weBigger, FALSE) ELSE CompareLoop(ours, theirs, i, j + 1, FALSE, theyBigger)) ELSE IF theyBigger THEN "THEY_BIGGER" ELSE IF weBigger THEN "WE_BIGGER" ELSE "NEITHER"

CompareLoop(ours, theirs, i, j, weBigger, theyBigger) == IF i # ColorEnd(ours, 0) /\ j # ColorEnd(theirs, 0) THEN (IF ours[i] = theirs[j] THEN CompareLoop(ours, theirs, i + 1, j + 1, weBigger, theyBigger) ELSE IF ours[i] < theirs[j] THEN CompareLoop(ours, theirs, i + 1, j, weBigger, FALSE) ELSE CompareLoop(ours, theirs, i, j + 1, FALSE, theyBigger)) ELSE IF theyBigger /\ i = ColorEnd(ours, 0) THEN "THEY_BIGGER" ELSE IF weBigger /\ j = ColorEnd(theirs, 0) THEN "WE_BIGGER" ELSE "NEITHER"

ColorSet_compare(ours, theirs) == CompareLoop(ours, theirs, 0, 0, TRUE, TRUE)

InitCmp == /\ lexerState = NoState
           /\ lexerStateEOL = NoState
           /\ fstk = NoFstk
           /\ tok = NoToken
           /\ diags = <<>>
           /\ options = DefaultOptions
           /\ fatal = "none"
           /\ parser = [ours |-> EmptyColorSet, theirs |-> EmptyColorSet, result |-> "none", op |-> "init"]
           /\ hist = EmptyHist

CmpFrame == UNCHANGED <<lexerState, lexerStateEOL, fstk, tok, diags, fatal, hist, options>>

AddOurs == /\ parser.op \in {"init", "add", "compare"}
           /\ \E color \in 0..MaxCmpColor : parser' = [parser EXCEPT !.ours = ColorSet_add(@, color), !.result = "none", !.op = "add"]
           /\ CmpFrame

AddTheirs == /\ parser.op \in {"init", "add", "compare"}
             /\ \E color \in 0..MaxCmpColor : parser' = [parser EXCEPT !.theirs = ColorSet_add(@, color), !.result = "none", !.op = "add"]
             /\ CmpFrame

Compare == /\ parser.op # "compare"
           /\ parser' = [parser EXCEPT !.result = ColorSet_compare(parser.ours, parser.theirs), !.op = "compare"]
           /\ CmpFrame

NextCmp == AddOurs \/ AddTheirs \/ Compare

SpecCmp == InitCmp /\ [][NextCmp]_vars

\* std::is_sorted over the whole array, empty slots included.
IsSorted(colorIndices) == \A i, j \in 0..(capacity - 1) : i < j => colorIndices[i] <= colorIndices[j]

\* C40: compare returns THEY_BIGGER exactly when every colour of this set is
\* in the other, WE_BIGGER exactly when that is not so and every colour of
\* the other is in this set, NEITHER otherwise; and every set built by add
\* is sorted.
C40_CompareIsInclusion ==
    /\ IsSorted(parser.ours) /\ IsSorted(parser.theirs)
    /\ parser.op = "compare" => parser.result = (IF ColorsOf(parser.ours) \subseteq ColorsOf(parser.theirs) THEN "THEY_BIGGER" ELSE IF ColorsOf(parser.theirs) \subseteq ColorsOf(parser.ours) THEN "WE_BIGGER" ELSE "NEITHER")

\* Two full sets that share two colours.
C40_Witness == parser.op = "compare" /\ parser.result = "NEITHER" /\ Cardinality(ColorsOf(parser.ours)) = capacity /\ Cardinality(ColorsOf(parser.theirs)) = capacity /\ Cardinality(ColorsOf(parser.ours) \cap ColorsOf(parser.theirs)) = 2

=============================================================================
